---- MODULE Spec2Model ----
(***************************************************************************)
(* Model of hh-go-parser: the crawl use case (ResumeUseCase), the resume   *)
(* entity's validity and skill normalisation, and the three file storage   *)
(* adapters (JSON, CSV, SQL script) it persists to.                        *)
(*                                                                         *)
(* One behaviour is a sequence of ParseResumesByCriteria runs against one  *)
(* output file, or (second Init branch) the application of the pure        *)
(* functions validateResume / normalizeSkills to one arbitrary record.     *)
(* Further specifications: FairRun (one run, fair), ConfigRun (one         *)
(* Application.Run over any configuration), CancelRun (one run whose       *)
(* context may be cancelled), OneFlow and SharedLimiter (the adapter's     *)
(* rate limiter used by one goroutine, or shared by two).                  *)
(***************************************************************************)
EXTENDS Naturals, Integers, Sequences, FiniteSets, TLC

VARIABLES
    format,      \* cfg.Output.Format: which storage adapter app.New selected
    sink,        \* the output file: [exists, ok, rows]
    processed,   \* ResumeUseCase.processed (set of identifiers mapped to true)
    pc,          \* position inside ParseResumesByCriteria / the unit harness
    run,         \* number of ParseResumesByCriteria calls started so far
    result,      \* the *ParseResult of the current run
    ret,         \* what the current run returned: [result, err], result <<>> for nil
    allResumes,  \* local allResumes: the accumulation buffer
    page,        \* local page
    resumes,     \* the page returned by the last SearchResumes
    idx,         \* position of the range loop inside resumes
    log,         \* history: replies of SearchResumes in the current run
    prev,        \* replies of the previous run when the source repeats them
    prevFlushed, \* history: the previous run called SaveResumes and it succeeded
    loadErr,     \* history: loadProcessedResumes failed in the current run
    priorIDs,    \* history: identifiers GetSavedResumeIDs returned in this run
    seeded,      \* history: uc.processed when the first fetch was issued
    saveCalls,   \* history: SaveResumes calls of the current run: [batch, err]
    validated,   \* history: records handed to validateResume in the current run
    unit,        \* the unit harness: [rec, valid, norm1, norm2]
    keywords,    \* cfg.Search.Keywords
    source,      \* what the remote source is: "finite", "endless" or "brief"
    other,       \* parallel runs: the state of the run that is not stepping
    persisted,   \* history: [tracked, clean, ids], the identifiers earlier runs
                 \* passed to a SaveResumes call that returned nil
    ctx,         \* the run's context: [done, fetches], fetches: SearchResumes
                 \* calls made when it was cancelled
    now,         \* the clock time.Now and time.Since read, in ticks
    lastCall,    \* hhRepository.lastCall / Client.lastCall, ZeroTime when unset
    flow,        \* per goroutine sharing the limiter: [via, pc, seen, slept, wake]
    waits        \* history: the limiter waits that returned: [flow, seen, slept, stamp]

limiterVars == << now, lastCall, flow, waits >>

runVars == << format, sink, processed, pc, run, result, ret, allResumes, page,
              resumes, idx, log, prev, prevFlushed, loadErr, priorIDs, seeded,
              saveCalls, validated, unit, keywords, source, other, persisted,
              ctx >>

vars == << format, sink, processed, pc, run, result, ret, allResumes, page,
           resumes, idx, log, prev, prevFlushed, loadErr, priorIDs, seeded,
           saveCalls, validated, unit, keywords, source, other, persisted, ctx,
           limiterVars >>

(***************************************************************************)
(* Bounds                                                                  *)
(***************************************************************************)
MaxRuns == 3
MaxRecords == 2
MaxSkills == 3
MaxPages == 4     \* pages an endless source is asked for
MaxBrief == 1     \* records a brief source returns in one run
MaxCity == 5      \* characters of a generated city name
MaxTime == 6      \* ticks the clock runs for
MaxCalls == 3     \* calls made on one adapter
RateLimit == 2    \* cfg.API.RateLimit, in ticks

(***************************************************************************)
(* Records.  A Resume is modelled by the fields the use case and the       *)
(* adapters look at: ID, Name, Title, Skills, Experience and Education    *)
(* (no fetched record of the model has an Education entry).                *)
(***************************************************************************)
Resume(id, name, title, skills, experience) ==
    [ID |-> id, Name |-> name, Title |-> title, Skills |-> skills,
     Experience |-> experience, Education |-> <<>>]

Job == [Company |-> "Acme", Position |-> "Dev", StartDate |-> "2020",
        EndDate |-> "2021"]

\* the records a SearchResumes page is drawn from: a valid record whose skills
\* need normalising, the same record without skills, a record whose only skill
\* is the empty string, and a record without identifier
RA    == Resume("a", "Ann", "", <<"Go", "", "Go", "Docker">>, <<>>)
RA0   == Resume("a", "Ann", "", <<>>, <<>>)
RB    == Resume("b", "", "Dev", <<"">>, <<>>)
RNoID == Resume("", "Ann", "Dev", <<"Go">>, <<Job>>)

Pool == {RA, RA0, RB, RNoID}

SkillNames == {"", "Go", "Docker"}

RECURSIVE SeqsUpTo(_, _)
SeqsUpTo(S, n) ==
    IF n = 0 THEN {<<>>}
    ELSE LET shorter == SeqsUpTo(S, n - 1)
         IN  shorter \cup {Append(s, x) : s \in {t \in shorter : Len(t) = n - 1}, x \in S}

\* every record of the unit harness
Universe ==
    {Resume(id, name, title, skills, experience) :
        id \in {"", "a"}, name \in {"", "Ann"}, title \in {"", "Dev"},
        skills \in SeqsUpTo(SkillNames, MaxSkills),
        experience \in {<<>>, <<Job>>}}

(***************************************************************************)
(* entities.Resume.IsValid, ResumeUseCase.validateResume,                  *)
(* normalizeSkills, enrichResumeData                                       *)
(***************************************************************************)
IsValid(r) == r.ID # "" /\ (r.Name # "" \/ r.Title # "")

\* validateResume without its check of skills and experience
validateResume_BasicOnly(r) == IsValid(r)

validateResume(r) ==
    IF ~IsValid(r) THEN FALSE
    ELSE IF Len(r.Skills) = 0 /\ Len(r.Experience) = 0 THEN FALSE
    ELSE TRUE

RECURSIVE normalizeLoop(_, _, _, _)
normalizeLoop(skills, i, seen, normalized) ==
    IF i > Len(skills) THEN normalized
    ELSE IF skills[i] # "" /\ skills[i] \notin seen
         THEN normalizeLoop(skills, i + 1, seen \cup {skills[i]},
                            Append(normalized, skills[i]))
         ELSE normalizeLoop(skills, i + 1, seen, normalized)

\* normalizeSkills that drops empty entries but keeps repeated ones
normalizeSkills_KeepRepeats(skills) == SelectSeq(skills, LAMBDA x : x # "")

normalizeSkills(skills) == normalizeLoop(skills, 1, {}, <<>>)

enrichResumeData(r) == [r EXCEPT !.Skills = normalizeSkills(r.Skills)]

\* a lookup that finds no identifier
isAlreadyProcessed_Never(id) == FALSE

isAlreadyProcessed(id) == id \in processed

\* markAsProcessed that forgets the identifier
markAsProcessed_Forget(id) == processed

markAsProcessed(id) == processed \cup {id}

(***************************************************************************)
(* Storage adapters: FileStorage (JSON), CSVStorage, SQLStorage.           *)
(* The file is [exists, ok, rows]: ok is FALSE when os.Create truncated    *)
(* the file and the write that followed did not complete; what such a file *)
(* holds is not modelled further.                                          *)
(***************************************************************************)
NoFile == [exists |-> FALSE, ok |-> TRUE, rows |-> <<>>]

RECURSIVE joinStrings(_, _)
joinStrings(items, sep) ==
    IF Len(items) = 0 THEN ""
    ELSE IF Len(items) = 1 THEN items[1]
    ELSE joinStrings(SubSeq(items, 1, Len(items) - 1), sep) \o sep \o items[Len(items)]

formatSkills(skills) == joinStrings(skills, "; ")

formatExperience(experience) ==
    joinStrings([i \in 1..Len(experience) |->
                    experience[i].Position \o " at " \o experience[i].Company
                    \o " (" \o experience[i].StartDate \o " - "
                    \o experience[i].EndDate \o ")"], " | ")

\* json.Encoder.Encode of one entities.Resume: keys are the json tags,
\* omitempty drops empty name, title, skills and experience
JSONObject(r) ==
    [id |-> r.ID,
     name |-> IF r.Name = "" THEN <<>> ELSE <<r.Name>>,
     title |-> IF r.Title = "" THEN <<>> ELSE <<r.Title>>,
     skills |-> r.Skills,
     experience |-> r.Experience]

CSVHeader == <<"ID", "Name", "Title", "Skills", "Experience">>

CSVRecord(r) ==
    <<r.ID, r.Name, r.Title, formatSkills(r.Skills), formatExperience(r.Experience)>>

\* SQLStorage.writeResume: one upsert, then one insert per Experience entry,
\* then one insert per Education entry
SQLStatements(r) ==
    <<[stmt |-> "upsert", id |-> r.ID]>>
    \o [i \in 1..Len(r.Experience) |-> [stmt |-> "insert_experience", id |-> r.ID]]
    \o [i \in 1..Len(r.Education) |-> [stmt |-> "insert_education", id |-> r.ID]]

(***************************************************************************)
(* The string values of the SQL script.  A text is a sequence of           *)
(* characters, so that escape can be modelled by what it does.             *)
(***************************************************************************)
Quote == "'"

\* an escape that writes the text as it is
escape_None(t) == t

\* escape, lines 201-203: strings.ReplaceAll(s, "'", "''")
RECURSIVE escape(_)
escape(t) ==
    IF t = << >> THEN << >>
    ELSE (IF Head(t) = Quote THEN <<Quote, Quote>> ELSE <<Head(t)>>) \o escape(Tail(t))

\* strings.Join on texts
RECURSIVE joinTexts(_, _)
joinTexts(items, sep) ==
    IF Len(items) = 0 THEN << >>
    ELSE IF Len(items) = 1 THEN items[1]
    ELSE joinTexts(SubSeq(items, 1, Len(items) - 1), sep) \o sep \o items[Len(items)]

\* writeResume: the string values of each statement it writes, in the order
\* of the format verbs, for the fields the model carries
SQLValues(r) ==
    << <<escape(r.ID), escape(r.Name), escape(r.Title),
         escape(joinTexts(r.Skills, <<";", " ">>))>> >>
    \o [i \in 1..Len(r.Experience) |->
           <<escape(r.ID), escape(r.Experience[i].Company),
             escape(r.Experience[i].Position), escape(r.Experience[i].StartDate),
             escape(r.Experience[i].EndDate)>>]
    \o [i \in 1..Len(r.Education) |->
           <<escape(r.ID), escape(r.Education[i].Institution)>>]

\* SaveResumes lines 37-47: the values of the whole script; the schema has none
RECURSIVE SQLScriptValues(_)
SQLScriptValues(batch) ==
    IF Len(batch) = 0 THEN << << >> >>
    ELSE SQLScriptValues(SubSeq(batch, 1, Len(batch) - 1)) \o SQLValues(batch[Len(batch)])

\* the records the SQL writer is given: texts with and without quotes
Texts == {<<"a">>, <<Quote>>, <<"a", Quote, "b", Quote, Quote>>}

TextJob(company) ==
    [Company |-> company, Position |-> <<"d", Quote>>, StartDate |-> <<"2">>,
     EndDate |-> << >>]

TextEdu(institution) == [Institution |-> institution]

TextResumes ==
    {[ID |-> id, Name |-> <<"O", Quote, "N">>, Title |-> << >>, Skills |-> skills,
      Experience |-> experience, Education |-> education] :
        id \in Texts,
        skills \in {<< >>, << <<"c", Quote>>, <<Quote>> >>},
        experience \in {<< >>, <<TextJob(<<Quote, "x">>), TextJob(<<"y">>)>>},
        education \in {<< >>, <<TextEdu(<<Quote, Quote>>)>>}}

RECURSIVE SQLScript(_)
SQLScript(batch) ==
    IF Len(batch) = 0 THEN <<[stmt |-> "schema", id |-> ""]>>
    ELSE SQLScript(SubSeq(batch, 1, Len(batch) - 1)) \o SQLStatements(batch[Len(batch)])

Encode(fmt, batch) ==
    CASE fmt = "csv" -> <<CSVHeader>> \o [i \in 1..Len(batch) |-> CSVRecord(batch[i])]
      [] fmt = "sql" -> SQLScript(batch)
      [] OTHER       -> [i \in 1..Len(batch) |-> JSONObject(batch[i])]

\* What a SaveResumes call can meet: success, os.Create failing, a write
\* failing after os.Create truncated the file, and, for the CSV adapter whose
\* csv.Writer buffers the rows, the deferred Flush failing (its error is never
\* looked at).
SaveOutcomes(fmt) ==
    {"ok", "create_failed", "write_failed"}
    \cup (IF fmt = "csv" THEN {"flush_failed"} ELSE {})

\* the file after a write that did not complete
Damaged == [exists |-> TRUE, ok |-> FALSE, rows |-> <<>>]

Written(rows) == [exists |-> TRUE, ok |-> TRUE, rows |-> rows]

\* a FileStorage that adds the batch to what the file holds
FileStorageSave_Append(file, batch, outcome) ==
    CASE outcome = "create_failed" -> [file |-> file, err |-> TRUE]
      [] outcome = "write_failed"  -> [file |-> Damaged, err |-> TRUE]
      [] OTHER -> [file |-> Written(file.rows \o Encode("json", batch)),
                   err |-> FALSE]

\* FileStorage.SaveResumes: the file it leaves behind and its error
FileStorageSave(file, batch, outcome) ==
    CASE outcome = "create_failed" -> [file |-> file, err |-> TRUE]
      [] outcome = "write_failed"  -> [file |-> Damaged, err |-> TRUE]
      [] OTHER -> [file |-> Written(Encode("json", batch)), err |-> FALSE]

\* CSVStorage.SaveResumes
CSVStorageSave(file, batch, outcome) ==
    CASE outcome = "create_failed" -> [file |-> file, err |-> TRUE]
      [] outcome = "write_failed"  -> [file |-> Damaged, err |-> TRUE]
      [] outcome = "flush_failed"  -> [file |-> Damaged, err |-> FALSE]
      [] OTHER -> [file |-> Written(Encode("csv", batch)), err |-> FALSE]

\* SQLStorage.SaveResumes
SQLStorageSave(file, batch, outcome) ==
    CASE outcome = "create_failed" -> [file |-> file, err |-> TRUE]
      [] outcome = "write_failed"  -> [file |-> Damaged, err |-> TRUE]
      [] OTHER -> [file |-> Written(Encode("sql", batch)), err |-> FALSE]

\* storageRepo.SaveResumes: the adapter app.New selected
SaveResumes(fmt, file, batch, outcome) ==
    CASE fmt = "csv" -> CSVStorageSave(file, batch, outcome)
      [] fmt = "sql" -> SQLStorageSave(file, batch, outcome)
      [] OTHER       -> FileStorageSave(file, batch, outcome)

\* a FileStorage for which a missing file is an error like any other
FileStorageIDs_MissingFails(file, readErr) ==
    IF readErr \/ ~file.exists \/ ~file.ok THEN [ids |-> <<>>, err |-> TRUE]
    ELSE [ids |-> [i \in 1..Len(file.rows) |-> file.rows[i].id], err |-> FALSE]

\* FileStorage.GetSavedResumeIDs; readErr: os.Open fails with an error other
\* than "not exist".  A damaged file never decodes.
FileStorageIDs(file, readErr) ==
    IF readErr THEN [ids |-> <<>>, err |-> TRUE]
    ELSE IF ~file.exists THEN [ids |-> <<>>, err |-> FALSE]
    ELSE IF ~file.ok THEN [ids |-> <<>>, err |-> TRUE]
    ELSE [ids |-> [i \in 1..Len(file.rows) |-> file.rows[i].id], err |-> FALSE]

\* CSVStorage.GetSavedResumeIDs; readErr: os.Open or the csv.Reader fails.
\* A damaged file that is read without error holds the header and no record.
CSVStorageIDs(file, readErr) ==
    IF readErr THEN [ids |-> <<>>, err |-> TRUE]
    ELSE IF ~file.exists THEN [ids |-> <<>>, err |-> FALSE]
    ELSE IF ~file.ok THEN [ids |-> <<>>, err |-> FALSE]
    ELSE [ids |-> [i \in 1..(Len(file.rows) - 1) |-> file.rows[i + 1][1]],
          err |-> FALSE]

\* SQLStorage.GetSavedResumeIDs
SQLStorageIDs(file, readErr) == [ids |-> <<>>, err |-> FALSE]

\* storageRepo.GetSavedResumeIDs: the adapter app.New selected
GetSavedResumeIDs(fmt, file, readErr) ==
    CASE fmt = "csv" -> CSVStorageIDs(file, readErr)
      [] fmt = "sql" -> SQLStorageIDs(file, readErr)
      [] OTHER       -> FileStorageIDs(file, readErr)

Range(s) == {s[i] : i \in 1..Len(s)}

(***************************************************************************)
(* The source: what resumeRepo.SearchResumes returns                       *)
(***************************************************************************)
Reply(err, items) == [err |-> err, items |-> items]

\* a source returns at most MaxRecords records in one run, in pages of any size
Replies(fetched) ==
    {Reply(TRUE, <<>>), Reply(FALSE, <<>>)}
    \cup {Reply(FALSE, items) : items \in SeqsUpTo(Pool, MaxRecords - fetched) \ {<<>>}}

\* a source that never fails and has a record for every page index
EndlessReplies(p) ==
    IF p < MaxPages THEN {Reply(FALSE, <<r>>) : r \in Pool} ELSE {}

\* a source that returns at most MaxBrief records in one run
BriefReplies(fetched) ==
    {Reply(TRUE, <<>>), Reply(FALSE, <<>>)}
    \cup {Reply(FALSE, items) : items \in SeqsUpTo(Pool, MaxBrief - fetched) \ {<<>>}}

\* what SearchResumes can return for page p when fetched records were returned
\* before
SourceReplies(kind, p, fetched) ==
    CASE kind = "endless" -> EndlessReplies(p)
      [] kind = "brief"   -> BriefReplies(fetched)
      [] OTHER            -> Replies(fetched)

NoPrev == [same |-> FALSE, replies |-> <<>>]

(***************************************************************************)
(* Initial states                                                          *)
(***************************************************************************)
NewResult == [TotalFound |-> 0, ProcessedCount |-> 0, SavedCount |-> 0,
              SkippedCount |-> 0, Errors |-> <<>>]

NotReturned == [result |-> <<>>, err |-> "nil"]

NoUnit == [rec |-> RA, valid |-> FALSE, norm1 |-> <<>>, norm2 |-> <<>>]

\* context.Background(): a context that is not cancelled
Background == [done |-> FALSE, fetches |-> 0]

\* time.Time{}: the value lastCall holds before the first call
ZeroTime == -1

\* no goroutine uses the limiter
InitNoLimiter ==
    /\ now = 0
    /\ lastCall = ZeroTime
    /\ flow = << >>
    /\ waits = << >>

\* no run executes beside this one
Alone == << >>

\* the batches of earlier runs are not recorded
Untracked == [tracked |-> FALSE, clean |-> TRUE, ids |-> {}]

InitCommon ==
    /\ other = Alone
    /\ sink = NoFile
    /\ processed = {}
    /\ run = 0
    /\ result = NewResult
    /\ ret = NotReturned
    /\ allResumes = <<>>
    /\ page = 0
    /\ resumes = <<>>
    /\ idx = 0
    /\ log = <<>>
    /\ prev = NoPrev
    /\ prevFlushed = FALSE
    /\ loadErr = FALSE
    /\ priorIDs = <<>>
    /\ seeded = {}
    /\ saveCalls = <<>>
    /\ validated = <<>>

\* app.New: a fresh use case over the adapter cfg.Output.Format selects
InitApp ==
    /\ format \in {"json", "csv", "sql"}
    /\ keywords = <<"Go">>
    /\ source = "finite"
    /\ persisted = Untracked
    /\ ctx = Background
    /\ pc = "idle"
    /\ unit = NoUnit
    /\ InitCommon
    /\ InitNoLimiter

InitUnit ==
    /\ format = "json"
    /\ pc = "unit"
    /\ unit \in {[rec |-> r, valid |-> FALSE, norm1 |-> <<>>, norm2 |-> <<>>] : r \in Universe}
    /\ keywords = <<"Go">>
    /\ source = "finite"
    /\ persisted = Untracked
    /\ ctx = Background
    /\ InitCommon
    /\ InitNoLimiter

Init == InitApp \/ InitUnit

(***************************************************************************)
(* ParseResumesByCriteria, step by step                                    *)
(***************************************************************************)
\* pagination that stops at the first page shorter than two records
endOfResults_ShortPage(items) == Len(items) < 2

\* line 74: the page that ends pagination
endOfResults(items) == Len(items) = 0

\* a failed search that ends pagination without being recorded
onSearchError_Unrecorded(res, p) == res

\* lines 68-72: a failed search is recorded and ends pagination
onSearchError(res, p) == [res EXCEPT !.Errors = Append(@, p)]

\* a kept record put in front of the accumulation buffer
keep_InFront(buffer, resume) == <<resume>> \o buffer

\* line 103: the kept record joins the accumulation buffer
keep(buffer, resume) == Append(buffer, resume)

\* a flush that does not look at the buffer
needsFlush_Always(buffer) == TRUE

\* line 118: SaveResumes is called only for a non-empty buffer
needsFlush(buffer) == Len(buffer) > 0

\* the return after a failed SaveResumes that drops the result
saveFailed_NilResult(res) == [result |-> <<>>, err |-> "save"]

\* line 121: the return after a failed SaveResumes
saveFailed(res) == [result |-> <<res>>, err |-> "save"]

\* lines 129-130: the normal return
finished(res) ==
    [result |-> <<[res EXCEPT !.TotalFound = res.ProcessedCount]>>, err |-> "nil"]

runHistory == << log, prev, prevFlushed, loadErr, priorIDs, seeded, saveCalls, validated >>

\* NewResumeUseCase: a new use case object (a new Application) over the same
\* output file starts with an empty processed map
NewResumeUseCase ==
    /\ pc \in {"idle", "done"}
    /\ run >= 1
    /\ processed # {}
    /\ processed' = {}
    /\ UNCHANGED << format, keywords, source, other, persisted,
                    ctx, limiterVars, sink,
                    pc, run, result, ret, allResumes, page, resumes, idx,
                    runHistory, unit >>

\* history: what the runs before the one that starts have persisted, calls
\* being the SaveResumes calls of the run that has just returned and known
\* the processed map the run that starts finds; clean: every run was started
\* by a new use case and no SaveResumes call has failed
earlier(h, calls, known) ==
    IF ~h.tracked THEN h
    ELSE LET fresh == [h EXCEPT !.clean = @ /\ known = {}]
         IN  IF calls = << >> THEN fresh
             ELSE LET call == calls[Len(calls)]
                  IN  IF call.err THEN [fresh EXCEPT !.clean = FALSE]
                      ELSE [fresh EXCEPT !.ids = @ \cup {call.batch[i].ID :
                                                            i \in 1..Len(call.batch)}]

\* lines 39-53: entry; the source either repeats the replies it gave in the
\* previous run or is free to return anything
ParseStart ==
    /\ pc \in {"idle", "done"}
    /\ run < MaxRuns
    /\ run' = run + 1
    /\ result' = NewResult
    /\ ret' = NotReturned
    /\ allResumes' = <<>>
    /\ page' = 0
    /\ resumes' = <<>>
    /\ idx' = 0
    /\ \E same \in BOOLEAN :
          /\ same => run >= 1
          /\ prev' = IF same THEN [same |-> TRUE, replies |-> log] ELSE NoPrev
    /\ prevFlushed' = (Len(saveCalls) > 0 /\ ~saveCalls[Len(saveCalls)].err)
    /\ log' = <<>>
    /\ loadErr' = FALSE
    /\ priorIDs' = <<>>
    /\ seeded' = {}
    /\ saveCalls' = <<>>
    /\ validated' = <<>>
    /\ ctx' = Background
    /\ persisted' = earlier(persisted, saveCalls, processed)
    /\ pc' = "load"
    /\ UNCHANGED << format, keywords, source, other, limiterVars, sink,
                    processed, unit >>

\* lines 55-59 and loadProcessedResumes: a failure is logged and ignored
LoadProcessed ==
    /\ pc = "load"
    /\ \E readErr \in BOOLEAN :
          LET got == GetSavedResumeIDs(format, sink, readErr)
          IN  /\ loadErr' = got.err
              /\ priorIDs' = got.ids
              /\ processed' = IF got.err THEN processed
                              ELSE processed \cup Range(got.ids)
    /\ seeded' = processed'
    /\ pc' = "fetch"
    /\ UNCHANGED << format, keywords, source, other, persisted,
                    ctx, limiterVars, sink,
                    run, result, ret, allResumes, page, resumes, idx, log,
                    prev, prevFlushed, saveCalls, validated, unit >>

\* a source that answers a request made with a cancelled context
observes_Ignored(c, reply) == TRUE

\* makeAPIRequest lines 131-147: the request is built with the run's context,
\* so client.Do fails once the context is cancelled
observes(c, reply) == c.done => reply.err

\* lines 65-77: one SearchResumes call and the two ways out of the loop
SearchResumes ==
    /\ pc = "fetch"
    /\ \E reply \in SourceReplies(source, page, result.ProcessedCount) :
          /\ prev.same => reply = prev.replies[Len(log) + 1]
          /\ observes(ctx, reply)
          /\ log' = Append(log, reply)
          /\ IF reply.err
             THEN /\ result' = onSearchError(result, page)
                  /\ resumes' = <<>>
                  /\ idx' = 0
                  /\ pc' = "flush"
             ELSE IF endOfResults(reply.items)
             THEN /\ resumes' = <<>>
                  /\ idx' = 0
                  /\ pc' = "flush"
                  /\ UNCHANGED result
             ELSE /\ resumes' = reply.items
                  /\ idx' = 1
                  /\ pc' = "process"
                  /\ UNCHANGED result
    /\ UNCHANGED << format, keywords, source, other, persisted,
                    ctx, limiterVars, sink,
                    processed, run, ret, allResumes, page, prev, prevFlushed,
                    loadErr, priorIDs, seeded, saveCalls, validated, unit >>

\* a rejection that marks the identifier as processed
rejected_Marked(id) == processed \cup {id}

\* lines 90-95: the branch of an invalid record counts it and continues; it
\* does not call markAsProcessed, so uc.processed is what it was
rejected(id) == processed

\* a record that is handled without being counted
counted_Not(res) == res

\* line 80: result.ProcessedCount++, first statement of every iteration
counted(res) == [res EXCEPT !.ProcessedCount = @ + 1]

\* a loop that asks for the same page again
nextPage_Same(p) == p

\* line 114: page++
nextPage(p) == p + 1

\* a record that is left out without being counted
skipped_Uncounted(res) == res

\* lines 84 and 92: result.SkippedCount++ before each continue
skipped(res) == [res EXCEPT !.SkippedCount = @ + 1]

\* lines 80-106 (one iteration of the range loop) and, after the last record
\* of the page, line 114
ProcessRecord ==
    /\ pc = "process"
    /\ LET resume == resumes[idx]
       IN  IF isAlreadyProcessed(resume.ID)
           THEN /\ result' = skipped(counted(result))
                /\ UNCHANGED << allResumes, processed, validated >>
           ELSE /\ validated' = Append(validated, resume)
                /\ IF ~validateResume(resume)
                   THEN /\ result' = skipped(counted(result))
                        /\ processed' = rejected(resume.ID)
                        /\ UNCHANGED allResumes
                   ELSE /\ allResumes' = keep(allResumes, enrichResumeData(resume))
                        /\ processed' = markAsProcessed(resume.ID)
                        /\ result' = [counted(result) EXCEPT !.SavedCount = @ + 1]
    /\ IF idx < Len(resumes)
       THEN /\ idx' = idx + 1
            /\ UNCHANGED << page, pc >>
       ELSE /\ idx' = 0
            /\ page' = nextPage(page)
            /\ pc' = "fetch"
    /\ UNCHANGED << format, keywords, source, other, persisted,
                    ctx, limiterVars, sink,
                    run, ret, resumes, log, prev, prevFlushed, loadErr,
                    priorIDs, seeded, saveCalls, unit >>

\* a flush inside the pagination loop: the next page is fetched after it
afterFlush_NextPage == "fetch"

\* lines 117-131: the flush comes after the pagination loop and is followed
\* by a return on both branches
afterFlush == "done"

\* lines 117-131: the flush and the return
Flush ==
    /\ pc = "flush"
    /\ IF needsFlush(allResumes)
       THEN \E outcome \in SaveOutcomes(format) :
               LET saved == SaveResumes(format, sink, allResumes, outcome)
               IN  /\ saveCalls' = Append(saveCalls, [batch |-> allResumes, err |-> saved.err])
                   /\ sink' = saved.file
                   /\ IF saved.err
                      THEN /\ ret' = saveFailed(result)
                           /\ UNCHANGED result
                      ELSE /\ ret' = finished(result)
                           /\ result' = ret'.result[1]
       ELSE /\ ret' = finished(result)
            /\ result' = ret'.result[1]
            /\ UNCHANGED << sink, saveCalls >>
    /\ pc' = afterFlush
    /\ UNCHANGED << format, keywords, source, other, persisted,
                    ctx, limiterVars,
                    processed, run, allResumes, page, resumes, idx, log, prev,
                    prevFlushed, loadErr, priorIDs, seeded, validated, unit >>

(***************************************************************************)
(* The unit harness: the pure functions applied to one record              *)
(***************************************************************************)
UnitValidate ==
    /\ pc = "unit"
    /\ unit' = [unit EXCEPT !.valid = validateResume(unit.rec)]
    /\ pc' = "unit_validated"
    /\ UNCHANGED << format, keywords, source, other, persisted,
                    ctx, limiterVars, sink,
                    processed, run, result, ret, allResumes, page, resumes,
                    idx, runHistory >>

UnitNormalize ==
    /\ pc = "unit_validated"
    /\ unit' = [unit EXCEPT !.norm1 = normalizeSkills(unit.rec.Skills)]
    /\ pc' = "unit_normalized"
    /\ UNCHANGED << format, keywords, source, other, persisted,
                    ctx, limiterVars, sink,
                    processed, run, result, ret, allResumes, page, resumes,
                    idx, runHistory >>

UnitNormalizeAgain ==
    /\ pc = "unit_normalized"
    /\ unit' = [unit EXCEPT !.norm2 = normalizeSkills(unit.norm1)]
    /\ pc' = "unit_done"
    /\ UNCHANGED << format, keywords, source, other, persisted,
                    ctx, limiterVars, sink,
                    processed, run, result, ret, allResumes, page, resumes,
                    idx, runHistory >>

(***************************************************************************)
(* The rate limiter: hhRepository.applyRateLimit (called first thing by    *)
(* SearchResumes and GetResumeByID) and Client.Do.  Both read lastCall,    *)
(* sleep, and store lastCall without a lock, so the steps of goroutines    *)
(* that share one adapter interleave.  IsZero and time.Since read lastCall *)
(* one after the other; reading it once gives the same outcomes, since     *)
(* lastCall never returns to the zero time.                                *)


(***************************************************************************)
(* SQLStorage.SaveResumes applied to one batch of records whose strings    *)
(* are texts                                                               *)
(***************************************************************************)
InitSQLWriter ==
    /\ format = "sql"
    /\ keywords = <<"Go">>
    /\ source = "finite"
    /\ persisted = Untracked
    /\ ctx = Background
    /\ pc = "sql"
    /\ unit \in {[batch |-> b, err |-> FALSE, values |-> << >>] :
                    b \in SeqsUpTo(TextResumes, MaxRecords)}
    /\ InitCommon
    /\ InitNoLimiter

\* SaveResumes lines 30-55 with writeSchema, writeResume and escape
SQLStorageWrite ==
    /\ pc = "sql"
    /\ \E outcome \in SaveOutcomes("sql") :
          LET saved == SQLStorageSave(sink, unit.batch, outcome)
          IN  /\ sink' = saved.file
              /\ unit' = [unit EXCEPT !.err = saved.err,
                                      !.values = IF saved.err THEN << >>
                                                 ELSE SQLScriptValues(unit.batch)]
    /\ pc' = "sql_written"
    /\ UNCHANGED << format, keywords, source, other, persisted, ctx, limiterVars,
                    processed, run, result, ret, allResumes, page, resumes,
                    idx, runHistory >>

SQLWriter == InitSQLWriter /\ [][SQLStorageWrite]_vars


(***************************************************************************)
(* hhRepository.buildSearchURL and getCityAreaID applied to one city name. *)
(* A name is a sequence of characters, so that strings.TrimSpace and       *)
(* strings.ToLower are modelled by what they do.                           *)
(***************************************************************************)
Space == " "

\* a lookup that does not trim the name
TrimSpace_None(t) == t

\* strings.TrimSpace: leading and trailing white space removed
RECURSIVE TrimSpace(_)
TrimSpace(t) ==
    IF t = << >> THEN << >>
    ELSE IF Head(t) = Space THEN TrimSpace(Tail(t))
    ELSE IF t[Len(t)] = Space THEN TrimSpace(SubSeq(t, 1, Len(t) - 1))
    ELSE t

\* the upper-case letters of the model's names and their lower-case forms
LowerOf == [c \in {"U", "O"} |-> IF c = "U" THEN "u" ELSE "o"]

\* strings.ToLower
ToLower(t) ==
    [i \in 1..Len(t) |-> IF t[i] \in DOMAIN LowerOf THEN LowerOf[t[i]] ELSE t[i]]

\* getCityAreaID lines 206-244: the entries of cityMap the model carries
cityMap ==
    {[name |-> <<"u", "f", "a">>, area |-> "99"],
     [name |-> <<"o", "m", "s", "k">>, area |-> "95"],
     [name |-> <<"p", "e", "r", "m">>, area |-> "75"]}

\* getCityAreaID lines 246-256
getCityAreaID(cityName) ==
    LET normalizedCity == ToLower(TrimSpace(cityName))
    IN  IF \E e \in cityMap : e.name = normalizedCity
        THEN (CHOOSE e \in cityMap : e.name = normalizedCity).area
        ELSE ""

\* buildSearchURL: the query parameters as name-value pairs, for criteria
\* with no experience filter, no update period and no page size
buildSearchURL(criteria) ==
    {<<"page", criteria.Page>>}
    \cup (IF Len(criteria.Keywords) > 0
          THEN {<<"text", joinStrings(criteria.Keywords, " ")>>} ELSE {})
    \cup (IF criteria.City # << >> /\ getCityAreaID(criteria.City) # ""
          THEN {<<"area", getCityAreaID(criteria.City)>>} ELSE {})
    \cup {<<"per_page", "20">>}

CityChars == {"u", "U", "f", "a", Space}

\* the city names of the configuration: every name of up to MaxCity
\* characters, and names of other cities, known and unknown
CityNames ==
    SeqsUpTo(CityChars, MaxCity)
    \cup {<<Space, "O", "m", "s", "k">>, <<"o", "m", "s", "k", Space, Space>>,
          <<"o", "m", Space, "s", "k">>, <<"k", "i", "e", "v">>}

InitCity ==
    /\ format = "json"
    /\ keywords \in {<< >>, <<"Go">>}
    /\ source = "finite"
    /\ persisted = Untracked
    /\ ctx = Background
    /\ pc = "city"
    /\ unit \in {[city |-> c, page |-> p, url |-> {}] : c \in CityNames, p \in 0..1}
    /\ InitCommon
    /\ InitNoLimiter

\* SearchResumes line 48: searchURL := r.buildSearchURL(criteria)
BuildURL ==
    /\ pc = "city"
    /\ unit' = [unit EXCEPT !.url =
                   buildSearchURL([Page |-> unit.page, Keywords |-> keywords,
                                   City |-> unit.city])]
    /\ pc' = "city_built"
    /\ UNCHANGED << format, keywords, source, other, persisted, ctx, limiterVars,
                    sink, processed, run, result, ret, allResumes, page,
                    resumes, idx, runHistory >>

CityLookup == InitCity /\ [][BuildURL]_vars


(***************************************************************************)
(* The single-file parser, src/main.go: ResumeParser.Parse                 *)
(***************************************************************************)
\* the items of an APIResponse, with the field Parse looks at
Items == {[id |-> "a"], [id |-> "b"], [id |-> ""]}

\* parseResume lines 227-280, for the identifier
parseResume(item) == [ID |-> item.id]

\* makeRequest: an error, or an APIResponse with its items and the page
\* count it reports
Response(err, items, pages) == [err |-> err, items |-> items, pages |-> pages]

\* the number of items the responses so far carried
RECURSIVE received(_)
received(replies) ==
    IF replies = << >> THEN 0
    ELSE Len(replies[Len(replies)].items) + received(SubSeq(replies, 1, Len(replies) - 1))

\* what makeRequest can return for page p: a finite source returns at most
\* MaxRecords items in all and reports any page count; an endless source has
\* an item on every page and reports the same page count every time (the
\* model stops asking it after page MaxPages)
Responses(kind, p, replies) ==
    IF kind = "endless"
    THEN IF p > MaxPages THEN {}
         ELSE {Response(FALSE, <<item>>, pages) :
                  item \in Items,
                  pages \in IF replies = << >> THEN 1..MaxPages
                            ELSE {replies[Len(replies)].pages}}
    ELSE {Response(TRUE, << >>, 0)}
         \cup {Response(FALSE, items, pages) :
                  items \in SeqsUpTo(Items, MaxRecords - received(replies)),
                  pages \in 0..MaxPages}

\* Parse lines 480-490: the items of one page, those with a known identifier
\* left out; [known, buffer] after item i and the items behind it
RECURSIVE collect(_, _, _, _)
collect(items, i, known, buffer) ==
    IF i > Len(items) THEN [known |-> known, buffer |-> buffer]
    ELSE LET resume == parseResume(items[i])
         IN  IF resume.ID \in known
             THEN collect(items, i + 1, known, buffer)
             ELSE collect(items, i + 1, known \cup {resume.ID}, Append(buffer, resume))

\* a loop that stops at an empty page only
lastPage_EmptyOnly(p, response) == Len(response.items) = 0

\* Parse lines 494-497: the check that ends the loop after a page
lastPage(p, response) == p >= response.pages - 1 \/ Len(response.items) = 0

\* saveResults lines 509-520 with saveToJSON, saveToCSV and saveToPostgreSQL:
\* the file is created and the records written to it, a row being modelled
\* by the identifier it holds; saveToCSV defers writer.Flush and does not
\* look at its error, saveToPostgreSQL looks at the error of no write
saveResults(fmt, file, batch, outcome) ==
    IF fmt \notin {"csv", "json", "postgres", "sql"} THEN [file |-> file, err |-> TRUE]
    ELSE CASE outcome = "create_failed" -> [file |-> file, err |-> TRUE]
           [] outcome = "write_failed"  ->
                  [file |-> Damaged, err |-> fmt \in {"csv", "json"}]
           [] outcome = "flush_failed"  -> [file |-> Damaged, err |-> FALSE]
           [] OTHER -> [file |-> Written([i \in 1..Len(batch) |-> [id |-> batch[i].ID]]),
                        err |-> FALSE]

\* NewResumeParser and the entry of Parse: an empty processed map, page 0
InitSingleFile ==
    /\ format \in {"json", "csv", "sql", "xml"}
    /\ keywords = <<"Go">>
    /\ source \in {"finite", "endless"}
    /\ persisted = Untracked
    /\ ctx = Background
    /\ pc = "parse"
    /\ unit = NoUnit
    /\ InitCommon
    /\ InitNoLimiter

\* Parse lines 464-499: one iteration of the loop
ParsePage ==
    /\ pc = "parse"
    /\ \E response \in Responses(source, page, log) :
          /\ log' = Append(log, response)
          /\ IF response.err
             THEN /\ pc' = "save"
                  /\ UNCHANGED << allResumes, processed, page >>
             ELSE LET got == collect(response.items, 1, processed, allResumes)
                  IN  /\ allResumes' = got.buffer
                      /\ processed' = got.known
                      /\ IF lastPage(page, response)
                         THEN pc' = "save" /\ UNCHANGED page
                         ELSE pc' = "parse" /\ page' = page + 1
    /\ UNCHANGED << format, keywords, source, other, persisted, ctx, limiterVars,
                    sink, run, result, ret, resumes, idx, prev, prevFlushed,
                    loadErr, priorIDs, seeded, saveCalls, validated, unit >>

\* Parse line 505 and saveResults
SaveResults ==
    /\ pc = "save"
    /\ \E outcome \in SaveOutcomes(format) :
          LET saved == saveResults(format, sink, allResumes, outcome)
          IN  /\ saveCalls' = Append(saveCalls, [batch |-> allResumes, err |-> saved.err])
              /\ sink' = saved.file
              /\ ret' = [result |-> << >>, err |-> IF saved.err THEN "save" ELSE "nil"]
    /\ pc' = "parsed"
    /\ UNCHANGED << format, keywords, source, other, persisted, ctx, limiterVars,
                    processed, run, result, allResumes, page, resumes, idx,
                    log, prev, prevFlushed, loadErr, priorIDs, seeded,
                    validated, unit >>

NextSingleFile == ParsePage \/ SaveResults

\* Parse runs in one goroutine from its call to its return
SingleFile ==
    /\ InitSingleFile
    /\ [][NextSingleFile]_vars
    /\ WF_vars(ParsePage)
    /\ WF_vars(SaveResults)

(***************************************************************************)
(* Runs one after the other on one output file, every run by a new         *)
(* Application (app.New builds a new ResumeUseCase), with the identifiers  *)
(* persisted by the earlier runs recorded                                  *)
(***************************************************************************)
InitRepeated ==
    /\ format \in {"json", "csv"}
    /\ keywords = <<"Go">>
    /\ source = "finite"
    /\ persisted = [tracked |-> TRUE, clean |-> TRUE, ids |-> {}]
    /\ ctx = Background
    /\ pc = "idle"
    /\ unit = NoUnit
    /\ InitCommon
    /\ InitNoLimiter

NextRepeated ==
    \/ NewResumeUseCase
    \/ ParseStart
    \/ LoadProcessed
    \/ SearchResumes
    \/ ProcessRecord
    \/ Flush

RepeatedRuns == InitRepeated /\ [][NextRepeated]_vars

(***************************************************************************)
Goroutines == {1, 2}

\* the operations of the adapter that send a request
Operations == {"SearchResumes", "GetResumeByID"}

\* op: the operation in progress, "" between calls; sent: history, the
\* requests the goroutine has sent
Idle(via) ==
    [via |-> via, pc |-> "idle", op |-> "", seen |-> ZeroTime, slept |-> 0,
     wake |-> 0, sent |-> 0]

\* the calls made on the adapter so far, finished or not
started ==
    Len(waits) + Cardinality({g \in DOMAIN flow : flow[g].pc \in {"sleep", "sent"}})

\* a limiter that never sleeps
sleepTime_None(last, t) == 0

\* applyRateLimit lines 118-122, Client.Do lines 37-40: the duration handed to
\* time.Sleep, 0 when time.Sleep is not called
sleepTime(last, t) ==
    IF last # ZeroTime /\ t - last < RateLimit
    THEN RateLimit - (t - last)
    ELSE 0

\* NewHHRepository / NewClient: one adapter, lastCall the zero time, used by
\* the goroutines G
InitLimiter(G) ==
    /\ \E via \in {"hhRepository", "Client"} : flow = [g \in G |-> Idle(via)]
    /\ now = 0
    /\ lastCall = ZeroTime
    /\ waits = << >>
    /\ format = "json"
    /\ keywords = <<"Go">>
    /\ source = "finite"
    /\ persisted = Untracked
    /\ ctx = Background
    /\ pc = "limiter"
    /\ unit = NoUnit
    /\ InitCommon

\* an operation that goes to its request without the limiter's wait
entered_Requesting(g) == [flow EXCEPT ![g].pc = "request"]

\* the wait as each goroutine sees it: what it read, how long it asked to
\* sleep, when it may go on
entered(g) ==
    [flow EXCEPT ![g].pc = "sleep",
                 ![g].seen = lastCall,
                 ![g].slept = sleepTime(lastCall, now),
                 ![g].wake = now + sleepTime(lastCall, now)]

returned(g) ==
    [flow |-> g, seen |-> flow[g].seen, slept |-> flow[g].slept, stamp |-> now]

\* time passes
Tick ==
    /\ pc = "limiter"
    /\ now < MaxTime
    /\ now' = now + 1
    /\ UNCHANGED << lastCall, flow, waits, runVars >>

\* SearchResumes line 45, GetResumeByID line 88, applyRateLimit lines
\* 118-126: the first statement of the operation; lastCall is read and
\* time.Sleep entered
applyRateLimit(g) ==
    /\ flow[g].via = "hhRepository"
    /\ flow[g].pc = "idle"
    /\ started < MaxCalls
    /\ \E op \in Operations : flow' = [entered(g) EXCEPT ![g].op = op]
    /\ UNCHANGED << now, lastCall, waits, runVars >>

\* applyRateLimit line 128, once time.Sleep has returned
storeLastCall(g) ==
    /\ flow[g].via = "hhRepository"
    /\ flow[g].pc = "sleep"
    /\ now >= flow[g].wake
    /\ lastCall' = now
    /\ waits' = Append(waits, returned(g))
    /\ flow' = [flow EXCEPT ![g].pc = "request"]
    /\ UNCHANGED << now, runVars >>

\* SearchResumes lines 47-57, GetResumeByID lines 90-98 and makeAPIRequest:
\* the request goes out and the operation returns
makeAPIRequest(g) ==
    /\ flow[g].via = "hhRepository"
    /\ flow[g].pc = "request"
    /\ flow' = [flow EXCEPT ![g].pc = "idle", ![g].op = "", ![g].sent = @ + 1]
    /\ UNCHANGED << now, lastCall, waits, runVars >>

\* Client.Do lines 37-46: lastCall is read and time.Sleep entered
ClientDoWait(g) ==
    /\ flow[g].via = "Client"
    /\ flow[g].pc = "idle"
    /\ started < MaxCalls
    /\ flow' = entered(g)
    /\ UNCHANGED << now, lastCall, waits, runVars >>

\* Client.Do lines 49-54: the request goes out once time.Sleep has returned
ClientDoSend(g) ==
    /\ flow[g].via = "Client"
    /\ flow[g].pc = "sleep"
    /\ now >= flow[g].wake
    /\ flow' = [flow EXCEPT ![g].pc = "sent", ![g].sent = @ + 1]
    /\ UNCHANGED << now, lastCall, waits, runVars >>

\* Client.Do line 55: lastCall is stored when the response is back
ClientDoStore(g) ==
    /\ flow[g].via = "Client"
    /\ flow[g].pc = "sent"
    /\ lastCall' = now
    /\ waits' = Append(waits, returned(g))
    /\ flow' = [flow EXCEPT ![g].pc = "idle"]
    /\ UNCHANGED << now, runVars >>

Next ==
    \/ NewResumeUseCase
    \/ ParseStart
    \/ LoadProcessed
    \/ SearchResumes
    \/ ProcessRecord
    \/ Flush
    \/ UnitValidate
    \/ UnitNormalize
    \/ UnitNormalizeAgain

Spec == Init /\ [][Next]_vars

\* One call of ParseResumesByCriteria on a new Application, as cmd/main.go
\* makes it.  ParseResumesByCriteria is sequential code on one goroutine: once
\* called, each of its steps is eventually taken.
ParseFirst == run = 0 /\ ParseStart

NextRun == ParseFirst \/ LoadProcessed \/ SearchResumes \/ ProcessRecord \/ Flush

FairRun ==
    /\ InitApp
    /\ [][NextRun]_vars
    /\ WF_vars(LoadProcessed \/ SearchResumes \/ ProcessRecord \/ Flush)

\* One run against a source that is either finite or endless
InitPaged ==
    /\ format \in {"json", "csv", "sql"}
    /\ keywords = <<"Go">>
    /\ source \in {"finite", "endless"}
    /\ persisted = Untracked
    /\ ctx = Background
    /\ pc = "idle"
    /\ unit = NoUnit
    /\ InitCommon
    /\ InitNoLimiter

PagedRun ==
    /\ InitPaged
    /\ [][NextRun]_vars
    /\ WF_vars(LoadProcessed \/ SearchResumes \/ ProcessRecord \/ Flush)

\* Two runs in parallel, each an Application of its own (use case, adapter,
\* output file), as the goroutines of TestStressParsingWithDifferentFormats
\* start them.  The variables hold the run that steps, other holds the run
\* that does not; Switch lets the other run step.
owned ==
    [sink |-> sink, processed |-> processed, pc |-> pc, run |-> run,
     result |-> result, ret |-> ret, allResumes |-> allResumes, page |-> page,
     resumes |-> resumes, idx |-> idx, log |-> log, prev |-> prev,
     prevFlushed |-> prevFlushed, loadErr |-> loadErr, priorIDs |-> priorIDs,
     seeded |-> seeded, saveCalls |-> saveCalls, validated |-> validated,
     ctx |-> ctx]

\* both runs write the same output file
outputFile_Shared(st, file) == file

\* the output file the run st finds when it goes on: its own
\* cfg.Output.File, whatever file the run beside it has written
outputFile(st, file) == st.sink

InitParallel ==
    /\ format \in {"json", "csv", "sql"}
    /\ keywords = <<"Go">>
    /\ source = "brief"
    /\ persisted = Untracked
    /\ ctx = Background
    /\ pc = "idle"
    /\ unit = NoUnit
    /\ sink = NoFile
    /\ processed = {}
    /\ run = 0
    /\ result = NewResult
    /\ ret = NotReturned
    /\ allResumes = <<>>
    /\ page = 0
    /\ resumes = <<>>
    /\ idx = 0
    /\ log = <<>>
    /\ prev = NoPrev
    /\ prevFlushed = FALSE
    /\ loadErr = FALSE
    /\ priorIDs = <<>>
    /\ seeded = {}
    /\ saveCalls = <<>>
    /\ validated = <<>>
    /\ other = owned
    /\ InitNoLimiter

Switch ==
    /\ other # Alone
    /\ other' = owned
    /\ sink' = outputFile(other, sink)
    /\ processed' = other.processed
    /\ pc' = other.pc
    /\ run' = other.run
    /\ result' = other.result
    /\ ret' = other.ret
    /\ allResumes' = other.allResumes
    /\ page' = other.page
    /\ resumes' = other.resumes
    /\ idx' = other.idx
    /\ log' = other.log
    /\ prev' = other.prev
    /\ prevFlushed' = other.prevFlushed
    /\ loadErr' = other.loadErr
    /\ priorIDs' = other.priorIDs
    /\ seeded' = other.seeded
    /\ saveCalls' = other.saveCalls
    /\ validated' = other.validated
    /\ ctx' = other.ctx
    /\ UNCHANGED << format, keywords, source, persisted, unit, limiterVars >>

NextParallel == NextRun \/ Switch

ParallelRuns == InitParallel /\ [][NextParallel]_vars

\* the caller cancels the context it passed while the run is paginating
Cancel ==
    /\ pc \in {"fetch", "process"}
    /\ ~ctx.done
    /\ ctx' = [done |-> TRUE, fetches |-> Len(log)]
    /\ UNCHANGED << format, keywords, source, other, persisted,
                    limiterVars, sink,
                    processed, pc, run, result, ret, allResumes, page,
                    resumes, idx, runHistory, unit >>

\* one run of a new use case whose context may be cancelled
NextCancel == NextRun \/ Cancel

CancelRun == InitApp /\ [][NextCancel]_vars

\* Application.Run lines 78-92: what Run returns once ParseResumesByCriteria
\* has returned r
ApplicationRun(r) == IF r.err # "nil" THEN "parse" ELSE "nil"

\* app.New on any configuration, as TestErrorHandling calls it: Output.Format
\* is not restricted to the three formats and Search.Keywords may be empty;
\* every format but csv and sql selects the FileStorage adapter
InitConfig ==
    /\ format \in {"json", "csv", "sql", "invalid_format"}
    /\ keywords \in {<< >>, <<"Go">>}
    /\ source = "finite"
    /\ persisted = Untracked
    /\ ctx = Background
    /\ pc = "idle"
    /\ unit = NoUnit
    /\ InitCommon
    /\ InitNoLimiter

\* one Application.Run on a new Application
ConfigRun == InitConfig /\ [][NextRun]_vars

\* The goroutines that use one adapter, and the clock
NextLimiter ==
    \/ Tick
    \/ \E g \in DOMAIN flow : applyRateLimit(g)
    \/ \E g \in DOMAIN flow : storeLastCall(g)
    \/ \E g \in DOMAIN flow : makeAPIRequest(g)
    \/ \E g \in DOMAIN flow : ClientDoWait(g)
    \/ \E g \in DOMAIN flow : ClientDoSend(g)
    \/ \E g \in DOMAIN flow : ClientDoStore(g)

\* one goroutine calls the adapter, as a single ParseResumesByCriteria does
InitOneFlow == InitLimiter({1})

OneFlow == InitOneFlow /\ [][NextLimiter]_vars

\* the goroutines of parallel crawls call one adapter
InitSharedLimiter == InitLimiter(Goroutines)

SharedLimiter == InitSharedLimiter /\ [][NextLimiter]_vars

(***************************************************************************)
(* Properties                                                              *)
(***************************************************************************)
IDs(batch) == [i \in 1..Len(batch) |-> batch[i].ID]

\* C1: idempotent re-run.  When a run (JSON or CSV adapter) gets from the
\* source the replies of the previous run, and that previous run flushed
\* successfully, the run returns SavedCount = 0 and SkippedCount =
\* ProcessedCount.  Stated for runs whose own GetSavedResumeIDs call succeeded.
C1_IdempotentRerun ==
    (/\ pc = "done"
     /\ format \in {"json", "csv"}
     /\ prev.same
     /\ prevFlushed
     /\ ~loadErr)
    => /\ result.SavedCount = 0
       /\ result.SkippedCount = result.ProcessedCount

\* C2: dedup within a single run.  When the record the loop is looking at
\* has the identifier of a record already kept in this run, the step counts it
\* as skipped, not as saved, does not validate it and leaves the buffer alone.
C2_DedupWithinRun ==
    [][(/\ pc = "process"
        /\ \E i \in 1..Len(allResumes) : allResumes[i].ID = resumes[idx].ID)
       => /\ result'.ProcessedCount = result.ProcessedCount + 1
          /\ result'.SkippedCount = result.SkippedCount + 1
          /\ result'.SavedCount = result.SavedCount
          /\ validated' = validated
          /\ allResumes' = allResumes]_vars

\* the second page repeats the record kept from the first page
C2_Witness ==
    /\ priorIDs = <<>>
    /\ Len(log) = 2
    /\ log[1].items = <<RA>>
    /\ log[2].items = <<RA>>
    /\ pc = "fetch"
    /\ result.SavedCount = 1
    /\ result.SkippedCount = 1

\* the validity invariant of a record, as the data model states it
ValidRecord(r) ==
    /\ r.ID # ""
    /\ r.Name # "" \/ r.Title # ""
    /\ Len(r.Skills) >= 1 \/ Len(r.Experience) >= 1

\* C3: validity boundary.  A fetched record whose identifier is not in the
\* processed set is saved (counted in SavedCount and appended to the buffer)
\* exactly when it is a valid record, otherwise it is counted as skipped; and
\* validateResume agrees with the validity invariant on every record.
C3_ValidityBoundary ==
    [][/\ (pc = "process" /\ resumes[idx].ID \notin processed)
          => /\ ValidRecord(resumes[idx])
                <=> /\ result'.SavedCount = result.SavedCount + 1
                    /\ result'.SkippedCount = result.SkippedCount
                    /\ Len(allResumes') = Len(allResumes) + 1
                    /\ allResumes'[Len(allResumes')].ID = resumes[idx].ID
             /\ ~ValidRecord(resumes[idx])
                <=> /\ result'.SavedCount = result.SavedCount
                    /\ result'.SkippedCount = result.SkippedCount + 1
                    /\ allResumes' = allResumes
       /\ (pc = "process" /\ resumes[idx].ID = "")
          => /\ result'.SkippedCount = result.SkippedCount + 1
             /\ result'.SavedCount = result.SavedCount
             /\ allResumes' = allResumes
       /\ (pc = "unit" /\ pc' = "unit_validated")
          => (unit'.valid <=> ValidRecord(unit.rec))]_vars

\* a record with identifier and name but neither skills nor experience was
\* skipped, and the same record with skills was saved
C3_Witness ==
    /\ priorIDs = <<>>
    /\ Len(log) = 1
    /\ log[1].items = <<RA0, RA>>
    /\ pc = "fetch"
    /\ result.SavedCount = 1
    /\ result.SkippedCount = 1
    /\ IDs(allResumes) = <<"a">>

RECURSIVE RecordsIn(_)
RecordsIn(replies) ==
    IF Len(replies) = 0 THEN 0
    ELSE RecordsIn(SubSeq(replies, 1, Len(replies) - 1)) + Len(replies[Len(replies)].items)

NonEmptyReplies(replies) ==
    Cardinality({i \in 1..Len(replies) : Len(replies[i].items) > 0})

NeverFailed(replies) == \A i \in 1..Len(replies) : ~replies[i].err

InRun == pc \in {"load", "fetch", "process", "flush"}

\* C4: pagination termination.  With a source that never fails, once the loop
\* is left SearchResumes has been called exactly k+1 times for the k non-empty
\* pages (the last call saw the empty page, none followed it) and
\* ProcessedCount is the sum of the page sizes; and every run reaches its
\* return.
C4_Counts ==
    /\ (pc \in {"flush", "done"} /\ NeverFailed(log))
       => /\ Len(log) = NonEmptyReplies(log) + 1
          /\ log[Len(log)].items = <<>>
          /\ page = Len(log) - 1
          /\ result.ProcessedCount = RecordsIn(log)
    /\ pc \in {"fetch", "process"}
       => \A i \in 1..Len(log) : ~log[i].err /\ log[i].items # <<>>

C4_PaginationTermination == []C4_Counts /\ (InRun ~> (pc = "done"))

\* page sizes 1, 1, 0: three calls, two records processed
C4_Witness ==
    /\ pc = "done"
    /\ Len(log) = 3
    /\ Len(log[1].items) = 1
    /\ Len(log[2].items) = 1
    /\ log[3] = Reply(FALSE, <<>>)
    /\ result.ProcessedCount = 2

\* C5: fatal flush error.  When SaveResumes fails, the run returns a non-nil
\* error and a non-nil ParseResult whose ProcessedCount is the number of
\* records fetched, whose SavedCount is the number of records accumulated
\* (the batch handed to the failed call) and whose SkippedCount is the rest.
C5_FatalFlushError ==
    (/\ pc = "done"
     /\ Len(saveCalls) > 0
     /\ saveCalls[Len(saveCalls)].err)
    => /\ ret.err # "nil"
       /\ Len(ret.result) = 1
       /\ ret.result[1].ProcessedCount = RecordsIn(log)
       /\ ret.result[1].SavedCount = Len(saveCalls[Len(saveCalls)].batch)
       /\ ret.result[1].SavedCount = Len(allResumes)
       /\ ret.result[1].SkippedCount = RecordsIn(log) - Len(allResumes)

\* a run that kept one of two records and whose flush failed
C5_Witness ==
    /\ pc = "done"
    /\ Len(saveCalls) = 1
    /\ saveCalls[1].err
    /\ ret.err = "save"
    /\ RecordsIn(log) = 2
    /\ Len(allResumes) = 1

\* C6: fetch failure is not fatal.  When SearchResumes fails on page k, the
\* error is appended to Errors, no further page is fetched, the records
\* accumulated so far are passed to SaveResumes, and the returned error is nil
\* unless that SaveResumes call fails.
C6_FetchFailureNotFatal ==
    (Len(log) > 0 /\ log[Len(log)].err)
    => /\ pc \in {"flush", "done"}
       /\ page = Len(log) - 1
       /\ result.Errors = <<page>>
       /\ \A i \in 1..(Len(log) - 1) : ~log[i].err /\ log[i].items # <<>>
       /\ pc = "done"
          => /\ Len(ret.result) = 1
             /\ ret.result[1].Errors = <<page>>
             /\ allResumes # <<>>
                => /\ Len(saveCalls) = 1
                   /\ saveCalls[1].batch = allResumes
                   /\ ret.err = "nil" <=> ~saveCalls[1].err
             /\ allResumes = <<>> => ret.err = "nil"

\* the search failed on page 1, the record kept from page 0 was flushed and
\* the run returned no error
C6_Witness ==
    /\ pc = "done"
    /\ Len(log) = 2
    /\ log[2].err
    /\ Len(allResumes) = 1
    /\ Len(saveCalls) = 1
    /\ ~saveCalls[1].err
    /\ ret.err = "nil"
    /\ result.Errors = <<1>>

FailedReplies(replies) == Cardinality({i \in 1..Len(replies) : replies[i].err})

\* C7: a failed load of the prior identifiers does not abort the run.  When
\* GetSavedResumeIDs fails, the run goes on to pagination from page 0 with an
\* empty processed set at the first fetch, the failure is not added to Errors
\* and is not the returned error.
C7_LoadFailureIgnored ==
    (loadErr /\ pc \in {"fetch", "process", "flush", "done"})
    => /\ seeded = {}
       /\ (pc = "fetch" /\ log = <<>>) => page = 0
       /\ Len(result.Errors) = FailedReplies(log)
       /\ pc = "done"
          => (ret.err # "nil" => Len(saveCalls) = 1 /\ saveCalls[1].err)

\* the part of C7 that does not speak of the content of the processed set
C7_RunGoesOn ==
    (loadErr /\ pc \in {"fetch", "process", "flush", "done"})
    => /\ (pc = "fetch" /\ log = <<>>) => page = 0
       /\ Len(result.Errors) = FailedReplies(log)
       /\ pc = "done"
          => (ret.err # "nil" => Len(saveCalls) = 1 /\ saveCalls[1].err)

\* C8: single flush.  SaveResumes is called at most once per run and never
\* before pagination has ended; a run that kept records calls it exactly once
\* with the whole accumulation buffer, a run that kept none does not call it.
C8_SingleFlush ==
    /\ Len(saveCalls) <= 1
    /\ InRun => saveCalls = <<>>
    /\ pc = "done"
       => /\ allResumes # <<>>
             => /\ Len(saveCalls) = 1
                /\ saveCalls[1].batch = allResumes
                /\ Len(saveCalls[1].batch) = result.SavedCount
          /\ allResumes = <<>> => saveCalls = <<>>

\* records kept from two different pages went out in one call
C8_Witness ==
    /\ pc = "done"
    /\ Len(log) = 3
    /\ log[1].items = <<RA>>
    /\ log[2].items = <<RB>>
    /\ Len(saveCalls) = 1
    /\ Len(saveCalls[1].batch) = 2

RECURSIVE Flatten(_)
Flatten(replies) ==
    IF Len(replies) = 0 THEN <<>>
    ELSE Flatten(SubSeq(replies, 1, Len(replies) - 1)) \o replies[Len(replies)].items

\* the fetched records that are kept, in the order fetched: those that are
\* valid and whose identifier was neither known before nor kept earlier
RECURSIVE KeptFrom(_, _, _)
KeptFrom(fetched, i, known) ==
    IF i > Len(fetched) THEN <<>>
    ELSE IF fetched[i].ID \in known \/ ~ValidRecord(fetched[i])
         THEN KeptFrom(fetched, i + 1, known)
         ELSE <<fetched[i]>> \o KeptFrom(fetched, i + 1, known \cup {fetched[i].ID})

SameButSkills(r, q) ==
    /\ r.ID = q.ID
    /\ r.Name = q.Name
    /\ r.Title = q.Title
    /\ r.Experience = q.Experience

\* the identifiers of the records in a written file, in file order
WrittenIDs(fmt, file) ==
    CASE fmt = "csv" -> [i \in 1..(Len(file.rows) - 1) |-> file.rows[i + 1][1]]
      [] fmt = "sql" ->
            LET upserts == SelectSeq(file.rows, LAMBDA st : st.stmt = "upsert")
            IN  [i \in 1..Len(upserts) |-> upserts[i].id]
      [] OTHER -> [i \in 1..Len(file.rows) |-> file.rows[i].id]

\* C9: fetch order is preserved.  Between pages and at the flush the buffer
\* is the sequence of kept records in fetch order (page order, then position
\* in the page); that buffer is the batch passed to SaveResumes, and each
\* adapter whose write completes leaves the records in batch order.
C9_FetchOrder ==
    /\ pc \in {"fetch", "flush", "done"}
       => LET kept == KeptFrom(Flatten(log), 1, seeded)
          IN  /\ Len(allResumes) = Len(kept)
              /\ \A i \in 1..Len(kept) : SameButSkills(allResumes[i], kept[i])
    /\ Len(saveCalls) = 1
       => /\ saveCalls[1].batch = allResumes
          /\ (pc = "done" /\ ~saveCalls[1].err /\ sink.ok)
             => WrittenIDs(format, sink) = IDs(saveCalls[1].batch)

\* b was fetched before a, on an earlier page, and is written before a
C9_Witness ==
    /\ pc = "done"
    /\ Len(log) = 3
    /\ log[1].items = <<RB>>
    /\ log[2].items = <<RA>>
    /\ Len(saveCalls) = 1
    /\ ~saveCalls[1].err
    /\ WrittenIDs(format, sink) = <<"b", "a">>

FirstIndex(list, x) ==
    CHOOSE k \in 1..Len(list) : list[k] = x /\ \A m \in 1..(k - 1) : list[m] # x

\* out holds the distinct non-empty entries of inp in first-occurrence order
NormalFormOf(out, inp) ==
    /\ \A i \in 1..Len(out) : out[i] # ""
    /\ \A i, j \in 1..Len(out) : i # j => out[i] # out[j]
    /\ Range(out) = Range(inp) \ {""}
    /\ \A i, j \in 1..Len(out) :
          i < j => FirstIndex(inp, out[i]) < FirstIndex(inp, out[j])

\* the fetched records that passed validateResume, in order
KeptInputs == SelectSeq(validated, ValidRecord)

\* C10: skill normalisation.  normalizeSkills returns the distinct non-empty
\* entries of its input in first-occurrence order, on every list and on
\* <<"Go", "", "Go", "Docker">> in particular; every record in the buffer
\* carries the normalised list of the record fetched; and normalising a
\* normalised list changes nothing.
C10_SkillNormalization ==
    /\ pc \in {"unit_normalized", "unit_done"}
       => NormalFormOf(unit.norm1, unit.rec.Skills)
    /\ pc = "unit_done" => unit.norm2 = unit.norm1
    /\ Len(allResumes) = Len(KeptInputs)
    /\ \A i \in 1..Len(allResumes) :
          /\ NormalFormOf(allResumes[i].Skills, KeptInputs[i].Skills)
          /\ KeptInputs[i].Skills = <<"Go", "", "Go", "Docker">>
             => allResumes[i].Skills = <<"Go", "Docker">>

\* the record with skills Go, "", Go, Docker was saved with skills Go, Docker
C10_Witness ==
    /\ pc = "done"
    /\ Len(saveCalls) = 1
    /\ validated = <<RA>>
    /\ saveCalls[1].batch[1].Skills = <<"Go", "Docker">>

(***************************************************************************)
(* C11.  One goroutine using the limiter: the first wait on a new adapter  *)
(* does not sleep, every later wait returns (stores lastCall) at least     *)
(* RateLimit after the previous one returned, so n waits span at least     *)
(* (n - 1) * RateLimit.                                                    *)
(***************************************************************************)
C11_SequentialSpacing ==
    /\ \A i \in 1..Len(waits) :
          /\ i = 1 => waits[i].seen = ZeroTime /\ waits[i].slept = 0
          /\ i > 1 => /\ waits[i].seen = waits[i - 1].stamp
                      /\ waits[i].stamp - waits[i - 1].stamp >= RateLimit
    /\ Len(waits) >= 1 =>
          waits[Len(waits)].stamp - waits[1].stamp >= (Len(waits) - 1) * RateLimit

\* three waits, the second paced by a sleep, the third already late enough
C11_Witness ==
    /\ Len(waits) = 3
    /\ waits[2].slept > 0
    /\ waits[2].stamp - waits[1].stamp = RateLimit
    /\ waits[3].slept = 0

(***************************************************************************)
(* C12.  Goroutines sharing one adapter: every wait returns at least       *)
(* RateLimit after the wait that returned before it, whichever goroutine   *)
(* made it, and no two waits are computed from the same lastCall value.    *)
(***************************************************************************)
C12_SharedSpacing ==
    /\ \A i \in 2..Len(waits) :
          waits[i].stamp - waits[i - 1].stamp >= RateLimit
    /\ \A i, j \in 1..Len(waits) :
          i # j => waits[i].seen # waits[j].seen

(***************************************************************************)
(* C13.  CSV adapter: once SaveResumes(B) has returned nil,                *)
(* GetSavedResumeIDs on the same file returns, without error, the          *)
(* identifiers of B in B's order and nothing else (the header row is not   *)
(* among them).                                                            *)
(***************************************************************************)
C13_CSVRoundTrip ==
    (format = "csv" /\ pc = "done" /\ Len(saveCalls) = 1 /\ ~saveCalls[1].err) =>
        CSVStorageIDs(sink, FALSE) =
            [ids |-> IDs(saveCalls[1].batch), err |-> FALSE]

(***************************************************************************)
(* C14.  JSON adapter: once SaveResumes(B) has returned nil,               *)
(* GetSavedResumeIDs returns, without error, the identifiers of B in B's   *)
(* order, whatever the file held before the call.                          *)
(***************************************************************************)
C14_JSONReplaces ==
    (format = "json" /\ pc = "done" /\ Len(saveCalls) = 1 /\ ~saveCalls[1].err) =>
        FileStorageIDs(sink, FALSE) =
            [ids |-> IDs(saveCalls[1].batch), err |-> FALSE]

\* the file held a before the call and holds only b after it
C14_Witness ==
    /\ format = "json"
    /\ pc = "done"
    /\ ~loadErr
    /\ priorIDs = <<"a">>
    /\ Len(saveCalls) = 1
    /\ ~saveCalls[1].err
    /\ IDs(saveCalls[1].batch) = <<"b">>
    /\ FileStorageIDs(sink, FALSE).ids = <<"b">>

(***************************************************************************)
(* C15.  SQL adapter: GetSavedResumeIDs returns the empty list and no      *)
(* error whatever the file holds, every run loads nothing from it, and a   *)
(* run against a source that repeats the previous run's replies returns    *)
(* the SavedCount of a first run on those replies: the number of records   *)
(* kept when no identifier is known beforehand.                            *)
(***************************************************************************)
C15_SQLNoDedup ==
    format = "sql" =>
        /\ \A readErr \in BOOLEAN :
              GetSavedResumeIDs(format, sink, readErr) = [ids |-> <<>>, err |-> FALSE]
        /\ priorIDs = <<>> /\ ~loadErr
        /\ (pc = "done" /\ prev.same) =>
              result.SavedCount = Len(KeptFrom(Flatten(prev.replies), 1, {}))

\* the part of C15 about the adapter alone
C15_NothingLoaded ==
    format = "sql" =>
        /\ \A readErr \in BOOLEAN :
              GetSavedResumeIDs(format, sink, readErr) = [ids |-> <<>>, err |-> FALSE]
        /\ priorIDs = <<>> /\ ~loadErr

(***************************************************************************)
(* C16.  In every run, also a later run of the same ResumeUseCase, the     *)
(* processed set at the first SearchResumes is exactly the set of          *)
(* identifiers that run's GetSavedResumeIDs returned, and empty when it    *)
(* failed: nothing marked in an earlier run is left in it.                 *)
(***************************************************************************)
C16_ProcessedPerRun ==
    pc \in {"fetch", "process", "flush", "done"} =>
        seeded = IF loadErr THEN {} ELSE Range(priorIDs)

(***************************************************************************)
(* C17.  When the first SearchResumes call of a run fails (the API rejects *)
(* the token, or the transport fails), Application.Run returns an error.   *)
(***************************************************************************)
C17_RejectedToken ==
    (pc = "done" /\ Len(log) = 1 /\ log[1].err) => ApplicationRun(ret) # "nil"

(***************************************************************************)
(* C18.  With an empty keyword list, or an output format other than json,  *)
(* csv and sql, Application.Run returns an error and writes nothing.       *)
(***************************************************************************)
C18_InvalidConfig ==
    (Len(keywords) = 0 \/ format \notin {"json", "csv", "sql"}) =>
        /\ sink = NoFile
        /\ saveCalls = << >>
        /\ pc = "done" => ApplicationRun(ret) # "nil"

(***************************************************************************)
(* C19.  A failed request (rate-limit answer, network timeout) is retried: *)
(* after a SearchResumes call that failed, the run is about to fetch the   *)
(* same page again; pagination does not end there.                         *)
(***************************************************************************)
C19_AutomaticRetry ==
    [][(pc = "fetch" /\ Len(log') = Len(log) + 1 /\ log'[Len(log')].err)
          => (pc' = "fetch" /\ page' = page)]_vars

(***************************************************************************)
(* C20.  When the context is cancelled during pagination, the next         *)
(* SearchResumes call fails and is the last one; the run then goes on as   *)
(* after any failed fetch: the failure is recorded, SaveResumes is called  *)
(* once with the accumulation buffer when it is not empty and not at all   *)
(* when it is empty.                                                       *)
(***************************************************************************)
C20_Cancellation ==
    ctx.done =>
        /\ Len(log) <= ctx.fetches + 1
        /\ Len(log) = ctx.fetches + 1 =>
              /\ log[Len(log)].err
              /\ pc \in {"flush", "done"}
              /\ Len(result.Errors) = 1
        /\ pc \in {"fetch", "process", "flush"} => saveCalls = << >>
        /\ pc = "done" =>
              /\ Len(log) = ctx.fetches + 1
              /\ IF Len(allResumes) > 0
                 THEN /\ Len(saveCalls) = 1
                      /\ saveCalls[1].batch = allResumes
                 ELSE saveCalls = << >>
              /\ ret.err = IF Len(saveCalls) = 1 /\ saveCalls[1].err
                           THEN "save" ELSE "nil"

\* cancelled after the first page: its records are saved
C20_Witness ==
    /\ ctx.done
    /\ ctx.fetches = 1
    /\ pc = "done"
    /\ Len(saveCalls) = 1
    /\ ~saveCalls[1].err
    /\ Len(saveCalls[1].batch) > 0

(***************************************************************************)
(* C21.  No page cap.  Against a source that never fails and has a record  *)
(* for every page, the run stays in pagination: it asks for page after     *)
(* page (here up to MaxPages), never calls SaveResumes and never returns.  *)
(* Against any source, pagination is left exactly at the first empty page  *)
(* or failed fetch, and the run then returns.                              *)
(***************************************************************************)
C21_InPagination ==
    /\ source = "endless" =>
          /\ pc \in {"idle", "load", "fetch", "process"}
          /\ saveCalls = << >>
          /\ ret = NotReturned
          /\ page = IF pc = "process" THEN Len(log) - 1 ELSE Len(log)
    /\ pc \in {"flush", "done"} <=>
          /\ Len(log) > 0
          /\ log[Len(log)].err \/ log[Len(log)].items = << >>

C21_NoPageCap ==
    /\ []C21_InPagination
    /\ (source = "endless" /\ InRun) ~> (pc = "fetch" /\ page = MaxPages)
    /\ (pc = "flush") ~> (pc = "done")

\* the endless source has been asked for every page up to the bound
C21_Witness ==
    /\ source = "endless"
    /\ pc = "fetch"
    /\ page = MaxPages
    /\ Len(log) = MaxPages
    /\ result.ProcessedCount = MaxPages

(***************************************************************************)
(* C22.  Two runs in parallel, each with its own use case, adapter and     *)
(* output file: under every interleaving of their steps each run returns   *)
(* what it returns when executed alone on the replies it got (the same     *)
(* error or none, the same ParseResult) and leaves the file it leaves      *)
(* when executed alone.                                                    *)
(***************************************************************************)
\* the batch a run executed alone on a new Application accumulates
AloneBatch(replies) ==
    LET kept == KeptFrom(Flatten(replies), 1, {})
    IN  [i \in 1..Len(kept) |-> [kept[i] EXCEPT !.Skills = normalizeSkills(@)]]

\* its ParseResult before the return
AloneResult(replies, batch) ==
    [TotalFound |-> 0,
     ProcessedCount |-> RecordsIn(replies),
     SavedCount |-> Len(batch),
     SkippedCount |-> RecordsIn(replies) - Len(batch),
     Errors |-> IF replies[Len(replies)].err THEN <<Len(replies) - 1>> ELSE << >>]

\* what it returns and the file it leaves behind when SaveResumes, if called,
\* meets outcome
AloneReturn(fmt, res, batch, outcome) ==
    IF batch = << >>
    THEN [ret |-> finished(res), sink |-> NoFile]
    ELSE LET saved == SaveResumes(fmt, NoFile, batch, outcome)
         IN  [ret |-> IF saved.err THEN saveFailed(res) ELSE finished(res),
              sink |-> saved.file]

AsAlone(fmt, replies, outcomeOfRun, file) ==
    LET batch == AloneBatch(replies)
        res == AloneResult(replies, batch)
    IN  \E outcome \in SaveOutcomes(fmt) :
           AloneReturn(fmt, res, batch, outcome) = [ret |-> outcomeOfRun, sink |-> file]

\* C22: beside another run with its own file, the run that steps (every run
\* is the one that steps after a Switch) returns what it returns alone on its
\* replies, leaves the file it leaves alone, and returns an error only when
\* its own SaveResumes call failed
C22_ParallelRuns ==
    (other # Alone /\ pc = "done") =>
        /\ AsAlone(format, log, ret, sink)
        /\ ret.err # "nil" => Len(saveCalls) = 1 /\ saveCalls[1].err

\* both runs fetched the same record and each saved it to its own file
C22_Witness ==
    /\ other # Alone
    /\ pc = "done"
    /\ other.pc = "done"
    /\ format = "json"
    /\ ret.err = "nil"
    /\ other.ret.err = "nil"
    /\ FileStorageIDs(sink, FALSE).ids = <<"a">>
    /\ FileStorageIDs(other.sink, FALSE).ids = <<"a">>

(***************************************************************************)
(* C23.  After a run on a JSON or CSV file whose SaveResumes call returned *)
(* nil, every identifier GetSavedResumeIDs returned at the start of the    *)
(* run is still returned by GetSavedResumeIDs.                             *)
(***************************************************************************)
\* the identifiers a GetSavedResumeIDs call that reads the file now returns
StoredIDs == Range(GetSavedResumeIDs(format, sink, FALSE).ids)

\* C23: after a run on a JSON or CSV file whose SaveResumes call returned
\* nil, the file still yields every identifier it yielded at the run's start
C23_NothingLost ==
    ( /\ pc = "done"
      /\ format \in {"json", "csv"}
      /\ Len(saveCalls) = 1
      /\ ~saveCalls[1].err ) => Range(priorIDs) \subseteq StoredIDs

(***************************************************************************)
(* C24.  Runs one after the other on one JSON or CSV file, each by a new   *)
(* use case and each SaveResumes call returning nil: an identifier an      *)
(* earlier run has persisted is in no later batch.                         *)
(***************************************************************************)
\* C24: when every run so far was started by a new use case and every
\* SaveResumes call returned nil, the batch the run passes to SaveResumes
\* holds no identifier that an earlier run passed to SaveResumes
C24_SavedOnce ==
    ( /\ persisted.tracked
      /\ persisted.clean
      /\ format \in {"json", "csv"}
      /\ ~loadErr
      /\ pc = "done"
      /\ Len(saveCalls) = 1
      /\ ~saveCalls[1].err ) =>
        Range(IDs(saveCalls[1].batch)) \cap persisted.ids = {}

(***************************************************************************)
(* C25.  The phases of one run: GetSavedResumeIDs once, before the first   *)
(* SearchResumes; the SearchResumes calls one after the other; SaveResumes *)
(* after the last of them; nothing after SaveResumes.                      *)
(***************************************************************************)
\* the last reply of the run ended the pagination
LoopLeft == Len(log) > 0 /\ (log[Len(log)].err \/ log[Len(log)].items = << >>)

\* C25: in every step of a run, GetSavedResumeIDs is called only as the
\* first step of the run, before any SearchResumes and any SaveResumes call,
\* and not again in that run; a SearchResumes call is a step of its own, made
\* from the loop head when the previous one has returned and no SaveResumes
\* call has been made; SaveResumes is called at most once, after the reply
\* that ended the loop; after the flush the run makes no call at all
C25_PhaseOrder ==
    [][ /\ pc' = "load" => (pc \in {"idle", "done"} /\ run' = run + 1)
        /\ pc = "load" =>
              /\ log = << >> /\ saveCalls = << >>
              /\ pc' = "fetch" /\ log' = log /\ saveCalls' = saveCalls
        /\ Len(log') > Len(log) =>
              /\ pc = "fetch"
              /\ Len(log') = Len(log) + 1
              /\ saveCalls = << >> /\ saveCalls' = << >>
              /\ priorIDs' = priorIDs /\ loadErr' = loadErr
        /\ (run' = run /\ saveCalls' # saveCalls) =>
              /\ pc = "flush" /\ pc' = "done"
              /\ saveCalls = << >> /\ Len(saveCalls') = 1
              /\ LoopLeft /\ log' = log
        /\ (run' = run /\ pc = "done") =>
              /\ pc' = "done"
              /\ log' = log /\ saveCalls' = saveCalls
              /\ priorIDs' = priorIDs /\ loadErr' = loadErr
        /\ (run' = run /\ pc \in {"fetch", "process", "flush"}) =>
              priorIDs' = priorIDs /\ loadErr' = loadErr ]_vars

\* a run that loaded identifiers, fetched two pages and saved
C25_Witness ==
    /\ pc = "done"
    /\ priorIDs # << >>
    /\ Len(log) >= 2
    /\ Len(saveCalls) = 1

(***************************************************************************)
(* C26.  The counters of a run: processed = saved + skipped, and saved is  *)
(* the length of the accumulation buffer, at every point and on return.    *)
(***************************************************************************)
CountsAgree(res, buffer) ==
    /\ res.ProcessedCount = res.SavedCount + res.SkippedCount
    /\ res.SavedCount = Len(buffer)

\* C26: from the entry of a run to its return, with or without an error,
\* ProcessedCount = SavedCount + SkippedCount and SavedCount is the length of
\* the accumulation buffer; the returned ParseResult satisfies both, and the
\* batch passed to SaveResumes has SavedCount records
C26_CountIdentity ==
    /\ (InRun \/ pc = "done") => CountsAgree(result, allResumes)
    /\ pc = "done" =>
          /\ ret.result # << >>
          /\ CountsAgree(ret.result[1], allResumes)
          /\ \A i \in 1..Len(saveCalls) :
                Len(saveCalls[i].batch) = ret.result[1].SavedCount

\* a run that skipped an invalid record, kept one record and returned the
\* error of SaveResumes
C26_Witness ==
    /\ pc = "done"
    /\ ret.err = "save"
    /\ result.ProcessedCount = 2
    /\ result.SavedCount = 1
    /\ result.SkippedCount = 1
    /\ Len(validated) = 2
    /\ \E i \in 1..Len(validated) : ~validateResume(validated[i])

(***************************************************************************)
(* C27.  The batch passed to SaveResumes: pairwise distinct identifiers,   *)
(* none of them returned by GetSavedResumeIDs at the start of the run.     *)
(***************************************************************************)
Distinct(ids) == \A i, j \in 1..Len(ids) : ids[i] = ids[j] => i = j

\* C27: the identifiers of the accumulation buffer, and so of the batch
\* passed to SaveResumes, are pairwise distinct, and none of them is among
\* the identifiers GetSavedResumeIDs returned to this run
C27_BatchIdentifiers ==
    /\ (InRun \/ pc = "done") =>
          /\ Distinct(IDs(allResumes))
          /\ Range(IDs(allResumes)) \cap Range(priorIDs) = {}
    /\ \A i \in 1..Len(saveCalls) :
          /\ Distinct(IDs(saveCalls[i].batch))
          /\ Range(IDs(saveCalls[i].batch)) \cap Range(priorIDs) = {}

\* the run fetched a record whose identifier the file held and a new record,
\* and passed the new record alone to SaveResumes
C27_Witness ==
    /\ pc = "done"
    /\ priorIDs = <<"a">>
    /\ Len(saveCalls) = 1
    /\ IDs(saveCalls[1].batch) = <<"b">>
    /\ \E i \in 1..Len(log) : \E k \in 1..Len(log[i].items) :
          log[i].items[k].ID = "a"
    /\ result.ProcessedCount = MaxRecords

(***************************************************************************)
(* C28.  The page indices of one run: 0, 1, 2, ... one after the other,    *)
(* the next page asked for only after a page with records.                 *)
(***************************************************************************)
\* C28: a SearchResumes call is made with criteria.Page equal to the number
\* of calls made before it in the run (0, 1, 2, ... with no gap and no
\* repeat); it follows either no call or a call that returned at least one
\* record and no error; no step of the run changes the other search
\* criteria; and no call follows an empty page or a failed call
C28_PageSequence ==
    [][ /\ Len(log') = Len(log) + 1 =>
              /\ page = Len(log)
              /\ page' = page
              /\ log # << >> => (~log[Len(log)].err /\ log[Len(log)].items # << >>)
        /\ keywords' = keywords
        /\ (run' = run /\ LoopLeft) => (log' = log /\ page' = page)
        /\ run' = run => page' \in {page, page + 1}
        /\ run' = run + 1 => page' = 0 ]_vars

\* the third call of a run, made with page index 2
C28_Witness ==
    /\ pc = "done"
    /\ Len(log) = 3
    /\ page = 2
    /\ log[1].items # << >>
    /\ log[2].items # << >>

(***************************************************************************)
(* C29.  ProcessedCount counts every record of every fetched page; no      *)
(* record, whatever happens to it, ends the page or the pagination.        *)
(***************************************************************************)
\* C29: between pages and on return ProcessedCount is the number of records
\* in the pages fetched in the run, duplicates and invalid records included
\* (inside a page: the earlier pages and the records handled so far); the
\* step that handles a record, whether it keeps it or skips it, goes on to
\* the next record of the page or, after the last one, to the next fetch
C29_Processed ==
    /\ pc \in {"fetch", "flush", "done"} => result.ProcessedCount = RecordsIn(log)
    /\ pc = "process" =>
          result.ProcessedCount = RecordsIn(log) - Len(resumes) + idx - 1
    /\ pc = "done" => ret.result[1].ProcessedCount = RecordsIn(log)

C29_EveryRecordCounted ==
    /\ []C29_Processed
    /\ [][pc = "process" =>
             /\ result'.ProcessedCount = result.ProcessedCount + 1
             /\ log' = log
             /\ IF idx < Len(resumes)
                THEN pc' = "process" /\ idx' = idx + 1 /\ resumes' = resumes
                ELSE pc' = "fetch"]_vars

\* a page whose first record is invalid and whose second is a duplicate of a
\* stored one: both are counted, the run goes on to the next page and returns
C29_Witness ==
    /\ pc = "done"
    /\ Len(log) = 2
    /\ Len(log[1].items) = 2
    /\ ~validateResume(log[1].items[1])
    /\ log[1].items[2].ID \in Range(priorIDs)
    /\ result.ProcessedCount = 2
    /\ result.SkippedCount = 2

(***************************************************************************)
(* C30.  The records of the batch, as they are persisted (after skill      *)
(* normalization), have an identifier, a name or a title, and at least one *)
(* skill or one Experience entry.                                          *)
(***************************************************************************)
\* C30: every record of every batch passed to SaveResumes has a non-empty
\* identifier, a non-empty name or title, and at least one skill or at least
\* one Experience entry
C30_PersistedValid ==
    \A i \in 1..Len(saveCalls) :
       \A k \in 1..Len(saveCalls[i].batch) : ValidRecord(saveCalls[i].batch[k])

(***************************************************************************)
(* C31.  A skipped record, duplicate or invalid, leaves uc.processed and   *)
(* the accumulation buffer as they were; a valid record is saved although  *)
(* an invalid record with its identifier came before it in the run.        *)
(***************************************************************************)
\* C31: the step that counts a record as skipped changes neither
\* uc.processed nor the accumulation buffer; and the step that handles a
\* valid record whose identifier was not in uc.processed at the first fetch
\* and is not the identifier of a kept record appends it to the buffer and
\* counts it as saved, whatever invalid records with that identifier the run
\* has skipped
C31_SkipFrame ==
    [][ pc = "process" =>
           /\ result'.SkippedCount = result.SkippedCount + 1 =>
                 /\ processed' = processed
                 /\ allResumes' = allResumes
           /\ ( /\ validateResume(resumes[idx])
                /\ resumes[idx].ID \notin seeded
                /\ \A i \in 1..Len(allResumes) : allResumes[i].ID # resumes[idx].ID ) =>
                 /\ result'.SavedCount = result.SavedCount + 1
                 /\ Len(allResumes') = Len(allResumes) + 1
                 /\ allResumes'[Len(allResumes')].ID = resumes[idx].ID
                 /\ processed' = processed \cup {resumes[idx].ID} ]_vars

\* the invalid record a was skipped, the valid record a after it was saved
C31_Witness ==
    /\ pc = "done"
    /\ validated = <<RA0, RA>>
    /\ result.SkippedCount = 1
    /\ result.SavedCount = 1
    /\ IDs(allResumes) = <<"a">>

(***************************************************************************)
(* C32.  hhRepository: in every SearchResumes and GetResumeByID call the   *)
(* request goes out after applyRateLimit has returned, and lastCall is     *)
(* stored once per request.                                                *)
(***************************************************************************)
\* the times goroutine g has stored lastCall
Stamps(g) == Cardinality({i \in 1..Len(waits) : waits[i].flow = g})

\* C32: for every goroutine that calls the hhRepository, the requests sent
\* are as many as the lastCall stores of that goroutine, but for the one
\* store of the call in progress once applyRateLimit has returned: so no
\* request precedes the wait of its call and every request has exactly one
\* store; the store of the call in progress was made after its sleep ended
C32_WaitBeforeRequest ==
    \A g \in DOMAIN flow :
       flow[g].via = "hhRepository" =>
          /\ flow[g].pc \in {"idle", "sleep", "request"}
          /\ flow[g].pc = "idle" <=> flow[g].op = ""
          /\ flow[g].pc \in {"idle", "sleep"} => flow[g].sent = Stamps(g)
          /\ flow[g].pc = "request" =>
                /\ flow[g].sent + 1 = Stamps(g)
                /\ \E i \in 1..Len(waits) :
                      /\ waits[i].flow = g
                      /\ waits[i].stamp >= flow[g].wake
                      /\ waits[i].seen = flow[g].seen
                      /\ \A j \in (i + 1)..Len(waits) : waits[j].flow # g

\* a GetResumeByID call about to send the second request of its goroutine,
\* after a wait that slept
C32_Witness ==
    \E g \in DOMAIN flow :
       /\ flow[g].via = "hhRepository"
       /\ flow[g].pc = "request"
       /\ flow[g].op = "GetResumeByID"
       /\ flow[g].sent = 1
       /\ flow[g].slept > 0
       /\ Stamps(g) = 2

(***************************************************************************)
(* C33.  A SaveResumes call that returns an error leaves the file as it    *)
(* was: GetSavedResumeIDs returns what it returned before the call.        *)
(***************************************************************************)
\* C33: after a run whose SaveResumes call returned an error, on any of the
\* three adapters, GetSavedResumeIDs returns without error the identifiers
\* it returned at the start of the run (nothing else writes the file in
\* between)
C33_FailedSaveKeepsFile ==
    ( /\ pc = "done"
      /\ ~loadErr
      /\ Len(saveCalls) = 1
      /\ saveCalls[1].err ) =>
        GetSavedResumeIDs(format, sink, FALSE) = [ids |-> priorIDs, err |-> FALSE]

(***************************************************************************)
(* C34.  ParseResult.Errors: at most one entry, there exactly when the     *)
(* pagination ended with a failed SearchResumes call.                      *)
(***************************************************************************)
\* C34: in every state of a run Errors has at most one entry; it is empty
\* while the run loads and paginates, and once the loop is left it has an
\* entry exactly when the last SearchResumes call failed, also in the
\* returned ParseResult; skips, a failed GetSavedResumeIDs and a failed
\* SaveResumes leave it as it is
C34_ErrorsList ==
    (InRun \/ pc = "done") =>
        /\ Len(result.Errors) <= 1
        /\ pc \in {"load", "fetch", "process"} => result.Errors = << >>
        /\ pc \in {"flush", "done"} =>
              (result.Errors # << >> <=> log[Len(log)].err)
        /\ pc = "done" => ret.result[1].Errors = result.Errors

\* a run with a failed load, a skipped record, a failed fetch and a failed
\* SaveResumes call: one entry, for the fetch
C34_Witness ==
    /\ pc = "done"
    /\ loadErr
    /\ result.SkippedCount >= 1
    /\ ret.err = "save"
    /\ Len(result.Errors) = 1

\* a run with a failed load, a skipped record and a failed SaveResumes call
\* whose pagination ended at an empty page: no entry
C34_NoEntry ==
    /\ pc = "done"
    /\ loadErr
    /\ result.SkippedCount >= 1
    /\ ret.err = "save"
    /\ ~log[Len(log)].err
    /\ result.Errors = << >>

(***************************************************************************)
(* C35.  JSON and CSV adapters: GetSavedResumeIDs on a file that does not  *)
(* exist returns no identifier and no error, and creates no file.          *)
(***************************************************************************)
\* C35: when the run loads the processed identifiers from a JSON or CSV file
\* that does not exist, the file still does not exist afterwards, no
\* identifier is returned and uc.processed is what it was; and
\* GetSavedResumeIDs returns the empty list with a nil error when os.Open
\* reports nothing but the missing file
C35_MissingFile ==
    [][ (pc = "load" /\ format \in {"json", "csv"} /\ ~sink.exists) =>
           /\ sink' = sink
           /\ priorIDs' = << >>
           /\ processed' = processed
           /\ GetSavedResumeIDs(format, sink, FALSE) = [ids |-> << >>, err |-> FALSE]
      ]_vars

\* a first run on a missing CSV file went on to its first fetch without a
\* load error
C35_Witness ==
    /\ pc = "fetch"
    /\ format = "csv"
    /\ run = 1
    /\ ~sink.exists
    /\ ~loadErr
    /\ priorIDs = << >>
    /\ log = << >>

(***************************************************************************)
(* C36.  The SQL script: the schema once and first; per record, in batch   *)
(* order, one upsert, then one insert per Experience entry, then one per   *)
(* Education entry; every string value with its quotes doubled.            *)
(***************************************************************************)
\* the statements written for one record
StatementsOf(r) == 1 + Len(r.Experience) + Len(r.Education)

\* the position of the upsert of batch[k] in the script
RECURSIVE UpsertAt(_, _)
UpsertAt(batch, k) ==
    IF k = 1 THEN 2 ELSE UpsertAt(batch, k - 1) + StatementsOf(batch[k - 1])

\* every quote of the text is one of a pair
RECURSIVE WellQuoted(_)
WellQuoted(t) ==
    IF t = << >> THEN TRUE
    ELSE IF Head(t) # Quote THEN WellQuoted(Tail(t))
    ELSE Len(t) >= 2 /\ t[2] = Quote /\ WellQuoted(Tail(Tail(t)))

\* the text with one quote for every pair
RECURSIVE Undoubled(_)
Undoubled(t) ==
    IF t = << >> THEN << >>
    ELSE IF Head(t) # Quote THEN <<Head(t)>> \o Undoubled(Tail(t))
    ELSE <<Quote>> \o Undoubled(Tail(Tail(t)))

\* written is value with each quote doubled and nothing else changed
Escaped(written, value) == WellQuoted(written) /\ Undoubled(written) = value

\* C36: after a SaveResumes call of the SQL adapter that returned nil, the
\* script starts with the schema, which occurs nowhere else; the statements
\* of the records follow in batch order, for each record one upsert, then
\* one insert per Experience entry, then one insert per Education entry, all
\* with the record's identifier, and nothing else; and every string value
\* of every statement is the field it was taken from with each quote doubled
C36_ScriptStructure ==
    (pc = "sql_written" /\ ~unit.err) =>
        LET script == sink.rows
            batch == unit.batch
            n == Len(batch)
        IN  /\ script[1].stmt = "schema"
            /\ \A i \in 2..Len(script) : script[i].stmt # "schema"
            /\ Len(script) = IF n = 0 THEN 1
                             ELSE UpsertAt(batch, n) + StatementsOf(batch[n]) - 1
            /\ Len(unit.values) = Len(script)
            /\ \A k \in 1..n :
                  LET r == batch[k]
                      at == UpsertAt(batch, k)
                      ne == Len(r.Experience)
                  IN  /\ script[at] = [stmt |-> "upsert", id |-> r.ID]
                      /\ Len(unit.values[at]) = 4
                      /\ Escaped(unit.values[at][1], r.ID)
                      /\ Escaped(unit.values[at][2], r.Name)
                      /\ Escaped(unit.values[at][3], r.Title)
                      /\ Escaped(unit.values[at][4], joinTexts(r.Skills, <<";", " ">>))
                      /\ \A e \in 1..ne :
                            /\ script[at + e] = [stmt |-> "insert_experience", id |-> r.ID]
                            /\ Escaped(unit.values[at + e][1], r.ID)
                            /\ Escaped(unit.values[at + e][2], r.Experience[e].Company)
                            /\ Escaped(unit.values[at + e][3], r.Experience[e].Position)
                            /\ Escaped(unit.values[at + e][4], r.Experience[e].StartDate)
                            /\ Escaped(unit.values[at + e][5], r.Experience[e].EndDate)
                      /\ \A d \in 1..Len(r.Education) :
                            /\ script[at + ne + d] = [stmt |-> "insert_education", id |-> r.ID]
                            /\ Escaped(unit.values[at + ne + d][1], r.ID)
                            /\ Escaped(unit.values[at + ne + d][2], r.Education[d].Institution)

\* a script for two records, the first with two Experience entries and one
\* Education entry and quotes in its identifier
C36_Witness ==
    /\ pc = "sql_written"
    /\ ~unit.err
    /\ Len(unit.batch) = 2
    /\ unit.batch[1].ID = <<"a", Quote, "b", Quote, Quote>>
    /\ Len(unit.batch[1].Experience) = 2
    /\ Len(unit.batch[1].Education) = 1
    /\ Len(sink.rows) = 6
    /\ sink.rows[6].stmt = "upsert"

(***************************************************************************)
(* C37.  The city of the search criteria: a name that is a table entry but *)
(* for its case and the white space around it gives the entry's region     *)
(* code as the area parameter; any other name gives no area parameter.     *)
(***************************************************************************)
\* name is the city but for the case of its letters and the spaces around it
Names(city, name) ==
    \E i \in 1..(Len(city) + 1) :
       /\ i + Len(name) - 1 <= Len(city)
       /\ \A k \in 1..Len(name) :
             city[i + k - 1] = name[k]
             \/ (city[i + k - 1] \in DOMAIN LowerOf /\ LowerOf[city[i + k - 1]] = name[k])
       /\ \A k \in 1..Len(city) :
             (k < i \/ k > i + Len(name) - 1) => city[k] = Space

AreaParams(url) == {q \in url : q[1] = "area"}

\* C37: the URL built for a city that names a table entry has exactly one
\* area parameter, the region code of the entry; the URL built for an empty
\* or unknown city has none; either way the URL is built, with its page and
\* page size parameters
C37_CityLookup ==
    pc = "city_built" =>
        /\ \A e \in cityMap :
              Names(unit.city, e.name) => AreaParams(unit.url) = {<<"area", e.area>>}
        /\ (\A e \in cityMap : ~Names(unit.city, e.name)) => AreaParams(unit.url) = {}
        /\ <<"page", unit.page>> \in unit.url
        /\ <<"per_page", "20">> \in unit.url

\* " Ufa ": the region code of ufa
C37_Witness ==
    /\ pc = "city_built"
    /\ unit.city = <<Space, "U", "f", "a", Space>>
    /\ <<"area", "99">> \in unit.url

\* a name of spaces only is unknown: no area parameter
C37_Unknown ==
    /\ pc = "city_built"
    /\ unit.city = <<Space, Space>>
    /\ AreaParams(unit.url) = {}


\* response i came for page i - 1 and let the loop go on
WentOn(i) ==
    /\ ~log[i].err
    /\ log[i].items # << >>
    /\ i - 1 < log[i].pages - 1

\* response i came for page i - 1 and ended the loop
Ended(i) == log[i].err \/ log[i].items = << >> \/ i - 1 >= log[i].pages - 1

\* C38: the single-file parser asks for the pages 0, 1, 2, ... in order and
\* stops after the first page whose request failed, whose item list was empty
\* or whose index reached Pages - 1 of its response; the collected list holds
\* no identifier twice; Parse always comes to its return when the source
\* reports a bounded page count, and by then saveResults was called once with
\* the collected list, after a failed request too.
C38_Pagination ==
    /\ [](pc \in {"parse", "save", "parsed"} =>
            /\ Distinct(IDs(allResumes))
            /\ \A i \in 1..Len(allResumes) : allResumes[i].ID \in processed
            /\ pc = "parse" =>
                  /\ page = Len(log)
                  /\ \A i \in 1..Len(log) : WentOn(i)
                  /\ saveCalls = << >>
            /\ pc \in {"save", "parsed"} =>
                  /\ Len(log) >= 1
                  /\ page = Len(log) - 1
                  /\ \A i \in 1..(Len(log) - 1) : WentOn(i)
                  /\ Ended(Len(log))
            /\ pc = "save" => saveCalls = << >>
            /\ pc = "parsed" =>
                  /\ Len(saveCalls) = 1
                  /\ saveCalls[1].batch = allResumes
                  /\ (ret.err = "nil") = ~saveCalls[1].err)
    /\ (pc = "parse" ~> pc = "parsed")

\* two pages fetched, the third request failed, and the two records collected
\* before it are in the file
C38_Witness ==
    /\ pc = "parsed"
    /\ Len(log) = 3
    /\ log[3].err
    /\ IDs(allResumes) = <<"a", "b">>
    /\ ret.err = "nil"
    /\ sink = Written(<<[id |-> "a"], [id |-> "b"]>>)

====
